---- MODULE Spec2Model ----
(***************************************************************************)
(* A model of the Monte Carlo forecasting engine of kwando                 *)
(* (src/src/monte_carlo.py): the preparation of a table of work items, the *)
(* MonteCarloSimulator object and the two resampling forecasts.            *)
(*                                                                         *)
(* Days are numbered within January 2024 (day 1 = 2024-01-01).  A quantile *)
(* is kept in hundredths, so that the linear interpolation of np.quantile  *)
(* at p/100 stays in the integers.                                         *)
(***************************************************************************)
EXTENDS Integers, Sequences, FiniteSets, TLC

\* ------------------------------------------------------------------ bounds
\* Largest number of rows of an input table.
MaxRows == 2
\* Longest throughput text that is tried character by character.
MaxText == 3
\* Largest num_work_items a caller asks for.
MaxItems == 2
\* Largest num_iterations a caller asks for.
MaxIter == 2
\* Longest walk of one period trial the model keeps element by element.
MaxWalk == 4

\* ------------------------------------------------------------ basic values
\* PERCENTILES = [70, 80, 90, 95, 98]
PERCENTILES_WITHOUT_98 == <<70, 80, 90, 95>>

PERCENTILES == <<70, 80, 90, 95, 98>>

Range(s) == {s[i] : i \in DOMAIN s}

Last(s) == s[Len(s)]

SeqsUpTo(S, lo, hi) == UNION {[1..n -> S] : n \in lo..hi}

\* A cell of a table: a string as read, a parsed Timestamp, or NaT.
Str(s) == [k |-> "str", s |-> s, day |-> 0, hour |-> 0]

Ts(d, h) == [k |-> "ts", s |-> "", day |-> d, hour |-> h]

NaT == [k |-> "NaT", s |-> "", day |-> 0, hour |-> 0]

\* The instants a date column is filled with: ISO-8601 in mixed formats,
\* and one string that is no date.
RawInstants ==
    {"2024-01-01", "2024-01-01T18:30:00", "2024-01-02T06:00:00",
     "2024-01-10", "not-a-date"}

\* pd.to_datetime(col, format="mixed", errors="coerce"), one cell at a time:
\* a date string gives its Timestamp, anything else is coerced to NaT.
ToDatetime(c) ==
    IF c.k = "ts" THEN c
    ELSE IF c.k # "str" THEN NaT
    ELSE CASE c.s = "2024-01-01" -> Ts(1, 0)
           [] c.s = "2024-01-01T18:30:00" -> Ts(1, 18)
           [] c.s = "2024-01-02" -> Ts(2, 0)
           [] c.s = "2024-01-02T06:00:00" -> Ts(2, 6)
           [] c.s = "2024-01-03" -> Ts(3, 0)
           [] c.s = "2024-01-08" -> Ts(8, 0)
           [] c.s = "2024-01-10" -> Ts(10, 0)
           [] c.s = "2024-01-15" -> Ts(15, 0)
           [] OTHER -> NaT

notnull(c) == c.k # "NaT"

\* Series.dt.date: the calendar day of a Timestamp, the time of day dropped
\* (NaT stays NaT).
DtDate(c) == IF notnull(c) THEN Ts(c.day, 0) ELSE NaT

Max(a, b) == IF a >= b THEN a ELSE b

\* ------------------------------------------------------------------ tables
\* A DataFrame: its column names and its columns, each a sequence of the
\* same length (a column the frame does not have is kept empty).  None, the
\* absent table, is the frame with is_none set.
Frame(cols, sd, ed, ct) ==
    [is_none |-> FALSE, columns |-> cols,
     start_date |-> sd, end_date |-> ed, cycle_time_days |-> ct,
     throughput |-> <<>>, tags |-> <<>>,
     nrows |-> Max(Max(Len(sd), Len(ed)), Len(ct))]

NoneFrame ==
    [is_none |-> TRUE, columns |-> {},
     start_date |-> <<>>, end_date |-> <<>>, cycle_time_days |-> <<>>,
     throughput |-> <<>>, tags |-> <<>>,
     nrows |-> 0]

\* A frame of n rows whose only column is an id.
IdFrame(n) ==
    [is_none |-> FALSE, columns |-> {"id"},
     start_date |-> <<>>, end_date |-> <<>>, cycle_time_days |-> <<>>,
     throughput |-> <<>>, tags |-> <<>>,
     nrows |-> n]

\* DataFrame.empty: no rows or no columns.
IsEmpty(df) == df.nrows = 0 \/ df.columns = {}

HasDates(df) == "start_date" \in df.columns /\ "end_date" \in df.columns

\* line 47: (ed - sd).days, of the two calendar dates
DateDiffOfInstants(sd, ed) ==
    (ed.day * 24 + ed.hour - (sd.day * 24 + sd.hour)) \div 24

DateDiff(sd, ed) == DtDate(ed).day - DtDate(sd).day

\* lines 47 and 51: one row's cycle time

CycleTime(sd, ed) ==
    IF notnull(DtDate(ed)) /\ notnull(DtDate(sd))
    THEN Max(1, DateDiff(sd, ed) + 1)
    ELSE 1

\* _convert_dates_to_cycle_time(df), df a DataFrame.
ConvertDropsBadRows(df) ==
    IF ~HasDates(df) THEN df
    ELSE LET sd == [i \in 1..df.nrows |-> ToDatetime(df.start_date[i])]
             ed == [i \in 1..df.nrows |-> ToDatetime(df.end_date[i])]
             keep == {i \in 1..df.nrows : notnull(sd[i]) /\ notnull(ed[i])}
             n == Cardinality(keep)
             idx == CHOOSE f \in [1..n -> keep] :
                        \A a, b \in 1..n : a < b => f[a] < f[b]
         IN  [df EXCEPT !.columns = @ \cup {"cycle_time_days"},
                        !.start_date = [i \in 1..n |-> sd[idx[i]]],
                        !.end_date = [i \in 1..n |-> ed[idx[i]]],
                        !.cycle_time_days =
                            [i \in 1..n |-> CycleTime(sd[idx[i]], ed[idx[i]])],
                        !.nrows = n]

ConvertDatesToCycleTime(df) ==
    IF ~HasDates(df) THEN df
    ELSE LET sd == [i \in 1..df.nrows |-> ToDatetime(df.start_date[i])]
             ed == [i \in 1..df.nrows |-> ToDatetime(df.end_date[i])]
         IN  [df EXCEPT !.columns = @ \cup {"cycle_time_days"},
                        !.start_date = sd,
                        !.end_date = ed,
                        !.cycle_time_days =
                            [i \in 1..df.nrows |-> CycleTime(sd[i], ed[i])]]

\* ---------------------------------------------------------------- inputs
\* The cycle times a caller puts into a cycle_time_days column.
CycleValues == {0, 1, 2}

DateCells == {Str(r) : r \in RawInstants}

DateFrames(lo, hi) ==
    {Frame({"start_date", "end_date"}, sd, ed, <<>>) :
        <<sd, ed>> \in UNION {[1..n -> DateCells] \X [1..n -> DateCells] : n \in lo..hi}}

DirectFrames(lo, hi) ==
    {Frame({"cycle_time_days"}, <<>>, <<>>, ct) : ct \in SeqsUpTo(CycleValues, lo, hi)}

\* A frame with a start_date column and no end_date column.
StartOnlyFrames ==
    {[Frame({"start_date"}, sd, <<>>, <<>>) EXCEPT !.nrows = Len(sd)] :
        sd \in SeqsUpTo(DateCells, 1, 1)}

\* A table of one row with both date columns and a cycle_time_days column
\* as well.
MixedFrames ==
    {Frame({"start_date", "end_date", "cycle_time_days"}, <<sd>>, <<ed>>, <<ct>>) :
        sd \in DateCells, ed \in DateCells, ct \in CycleValues}

\* A table of one row with a start_date and a cycle_time_days column and no
\* end_date column.
StartAndCycleFrames ==
    {Frame({"start_date", "cycle_time_days"}, <<sd>>, <<>>, <<ct>>) :
        sd \in DateCells, ct \in CycleValues}

\* What the caller hands to MonteCarloSimulator(data): None, a str (a path,
\* with what pd.read_csv finds there), a DataFrame, or something else.
DataNone == [type |-> "None", path |-> "", file |-> "", frame |-> NoneFrame]

DataOther == [type |-> "other", path |-> "", file |-> "", frame |-> NoneFrame]

DataPath(p, f, fr) == [type |-> "str", path |-> p, file |-> f, frame |-> fr]

DataFrameOf(fr) == [type |-> "DataFrame", path |-> "", file |-> "", frame |-> fr]

BadPathInputs ==
    {DataPath("", "", NoneFrame), DataPath("   ", "", NoneFrame),
     DataPath("data.csv", "missing", NoneFrame),
     DataPath("data.csv", "garbled", NoneFrame)}

\* Every shape of input, with date tables of up to MaxRows rows.
PrepareInputs ==
    {DataNone, DataOther} \cup BadPathInputs
    \cup {DataPath("data.csv", "csv", fr) :
            fr \in DateFrames(0, MaxRows) \cup DirectFrames(1, 1)
                   \cup {IdFrame(1)} \cup StartOnlyFrames \cup MixedFrames}
    \cup {DataFrameOf(fr) :
            fr \in DateFrames(0, MaxRows) \cup DirectFrames(0, MaxRows)
                   \cup {IdFrame(1), IdFrame(0)} \cup StartOnlyFrames
                   \cup MixedFrames \cup StartAndCycleFrames}

\* The sample of one value, 7.
SingletonSample == Frame({"cycle_time_days"}, <<>>, <<>>, <<7>>)

\* The date tables of one row that start on 2024-01-01.
EngineDateFrames ==
    {fr \in DateFrames(1, 1) : fr.start_date[1] = Str("2024-01-01")}

\* The inputs the forecasts are then run on: date tables of one row among
\* them, and the CSV file with the two date columns and no rows.
EngineInputs ==
    {DataNone, DataPath("   ", "", NoneFrame), DataFrameOf(IdFrame(1)),
     DataFrameOf(SingletonSample)}
    \cup {DataPath("data.csv", "csv", fr) : fr \in DateFrames(0, 0)}
    \cup {DataFrameOf(fr) : fr \in EngineDateFrames}
    \cup {DataFrameOf(fr) : fr \in DirectFrames(0, MaxRows)}

\* ----------------------------------------------------------- construction
Raised(e) == [ok |-> FALSE, df |-> NoneFrame, error |-> e]

Built(df) == [ok |-> TRUE, df |-> df, error |-> ""]

\* _load_and_prepare_data(csv_path), for the str the constructor passes on:
\* pd.read_csv fails, or gives the file's frame.
LoadAndPrepareData(data) ==
    IF data.path = "" THEN Raised("ValueError")
    ELSE IF data.file = "missing" THEN Raised("Exception")
    ELSE IF data.file = "garbled" THEN Raised("ParserError")
    ELSE IF ~HasDates(data.frame) THEN Raised("ValueError")
    ELSE Built(ConvertDatesToCycleTime(data.frame))

\* str.strip() of a path is empty.
IsBlank(p) == p \in {"", "   "}

\* MonteCarloSimulator.__init__(data): the frame prepared, before the final
\* validation.
Prepared(data) ==
    IF data.type = "None" THEN Raised("ValueError")
    ELSE IF data.type = "str"
         THEN IF IsBlank(data.path) THEN Raised("ValueError")
              ELSE LoadAndPrepareData(data)
    ELSE IF data.type = "DataFrame"
         THEN IF IsEmpty(data.frame) THEN Raised("ValueError")
              ELSE Built(ConvertDatesToCycleTime(data.frame))
    ELSE Raised("ValueError")

\* MonteCarloSimulator.__init__(data): self.df, or the error raised.
SimulatorInit(data) ==
    LET r == Prepared(data)
    IN  IF r.ok /\ "cycle_time_days" \notin r.df.columns
        THEN Raised("ValueError")
        ELSE r

\* line 39: the conversion works on df.copy(); the table the caller handed
\* over is, after the call, what it was.
CallerTableAliased(d) ==
    IF d.type = "DataFrame" THEN [d EXCEPT !.frame = ConvertDatesToCycleTime(d.frame)]
    ELSE d

CallerTable(d) == d

\* ------------------------------------------------------------------ state
VARIABLES
    given,       \* what the caller handed to the constructor, as it was then
    data,        \* what the caller handed to the constructor, as the caller holds it
    sim,         \* "unbuilt", "built" or "raised": the constructor's outcome
    self_df,     \* the simulator's self.df
    pc,          \* where the running forecast is; "idle" between calls
    call,        \* the last call: its arguments, and via "method" or "function"
    total,       \* cumulative_sum's list
    walk,        \* the list cumulative_sum last returned
    simulated_totals,       \* the outcomes of the trials so far
    simulated_cycle_times,  \* simulate_days' list of the current trial
    totals,      \* simulate_days' totals
    n,           \* simulate_days' n
    spin,        \* 0, or 1 and 2 in turn for the appends to a walk of MaxWalk elements
    result,      \* what the last call returned or raised
    dashboard    \* the dashboard's widgets and panes

vars ==
    <<given, data, sim, self_df, pc, call, total, walk, simulated_totals,
      simulated_cycle_times, totals, n, spin, result, dashboard>>

\* A text: its characters; or the text ",".join([token] * count), kept as the
\* token and the count.
CharsText(chars) == [kind |-> "chars", chars |-> chars, token |-> <<>>, count |-> 0]

JoinedText(token, count) ==
    [kind |-> "join", chars |-> <<>>, token |-> token, count |-> count]

NoText == [kind |-> "none", chars |-> <<>>, token |-> <<>>, count |-> 0]

\* reference_start is the start date a caller wants the projected dates
\* counted from; NaT when the caller names none.
NoCall ==
    [fn |-> "", via |-> "", df |-> NoneFrame,
     num_work_items |-> 0, num_iterations |-> 0,
     start_date |-> NaT, end_date |-> NaT,
     start_ts |-> NaT, end_ts |-> NaT, max_days |-> 0,
     reference_start |-> NaT, text |-> NoText, selected_tags |-> {},
     draws |-> <<>>]

NoResult ==
    [status |-> "none", fn |-> "", error |-> "", outcomes |-> <<>>,
     percentiles |-> <<>>, percentile_dates |-> <<>>,
     num_work_items |-> 0, num_iterations |-> 0,
     start_date |-> "", end_date |-> "",
     total_items |-> 0, min_cycle_time |-> 0, max_cycle_time |-> 0,
     median_cycle_time |-> 0,
     throughput |-> <<>>,
     total_weeks |-> 0, min_throughput |-> 0, max_throughput |-> 0,
     median_throughput |-> 0, avg_throughput |-> 0,
     next_day |-> NaT, df |-> NoneFrame, markdown |-> ""]

engine ==
    <<pc, call, total, walk, simulated_totals, simulated_cycle_times, totals, n,
      spin, result>>

\* MonteCarloSimulator(d)
Construct(d) ==
    /\ sim = "unbuilt"
    /\ pc = "idle"
    /\ LET r == SimulatorInit(d)
       IN  /\ given' = d
           /\ data' = CallerTable(d)
           /\ sim' = IF r.ok THEN "built" ELSE "raised"
           /\ self_df' = r.df
    /\ UNCHANGED <<engine, dashboard>>

ConstructAny == sim = "unbuilt" /\ \E d \in PrepareInputs : Construct(d)

ConstructForEngine == sim = "unbuilt" /\ \E d \in EngineInputs : Construct(d)

\* -------------------------------------------------------------- quantiles
RECURSIVE Insert(_, _)
Insert(x, s) ==
    IF s = <<>> THEN <<x>>
    ELSE IF x <= Head(s) THEN <<x>> \o s
    ELSE <<Head(s)>> \o Insert(x, Tail(s))

RECURSIVE Sorted(_)
Sorted(s) == IF s = <<>> THEN <<>> ELSE Insert(Head(s), Sorted(Tail(s)))

Min(a, b) == IF a <= b THEN a ELSE b

\* np.quantile(a, p / 100), in hundredths: the linear interpolation at the
\* rank (p / 100) * (len(a) - 1) of the sorted outcomes.
QuantileUnsorted(a, p) ==
    LET pos == p * (Len(a) - 1)
        lo == pos \div 100
        hi == Min(lo + 1, Len(a) - 1)
    IN  100 * a[lo + 1] + (pos % 100) * (a[hi + 1] - a[lo + 1])

\* the same without the interpolation: the lower neighbour
QuantileLower(a, p) ==
    LET srt == Sorted(a)
        pos == p * (Len(a) - 1)
        lo == pos \div 100
    IN  100 * srt[lo + 1]

Quantile(a, p) ==
    LET srt == Sorted(a)
        pos == p * (Len(a) - 1)
        lo == pos \div 100
        hi == Min(lo + 1, Len(a) - 1)
    IN  100 * srt[lo + 1] + (pos % 100) * (srt[hi + 1] - srt[lo + 1])

\* str(p) for p in PERCENTILES
PercentileKey(p) ==
    CASE p = 70 -> "70" [] p = 80 -> "80" [] p = 90 -> "90"
      [] p = 95 -> "95" [] p = 98 -> "98"

\* {str(p): float(np.quantile(outcomes, p / 100)) for p in PERCENTILES}, as
\* the sequence of <<key, value in hundredths>> in PERCENTILES' order.
Percentiles(outcomes) ==
    [i \in DOMAIN PERCENTILES |->
        [key |-> PercentileKey(PERCENTILES[i]),
         value |-> Quantile(outcomes, PERCENTILES[i])]]

\* (start_ts + pd.Timedelta(days=v)).date() for each percentile: the day
\* number of the date, v in hundredths of a day.
PercentileDates(percentiles, start_ts) ==
    [i \in DOMAIN percentiles |->
        [key |-> percentiles[i].key,
         value |-> (start_ts.day * 100 + percentiles[i].value) \div 100]]

\* ------------------------------------------------------ forecast requests
\* pd.Timestamp.today().normalize(): the days a forecast is run on.
Todays == {Ts(20, 0)}

\* num_work_items and num_iterations of a request, valid or not.
ItemCounts == 0..MaxItems

IterationCounts == 0..MaxIter

NoneCell == [k |-> "None", s |-> "", day |-> 0, hour |-> 0]

\* start_date and end_date of a period request: dates, a string that is no
\* date, the empty string, and None.
PeriodDates ==
    {Str("2024-01-01"), Str("2024-01-03"), Str("not-a-date"), Str(""), NoneCell}

\* The frames the module-level functions are handed without a simulator:
\* None, a frame without the cycle-time column, a frame with no rows.
GuardFrames == {NoneFrame, IdFrame(1)} \cup DirectFrames(0, 0)

\* `not d or not isinstance(d, str)`
NotNonEmptyStr(d) == d.k # "str" \/ d.s = ""

\* pd.Timestamp(d) raises ValueError for a string that is no date.
TimestampRaises(d) == d.k = "str" /\ ToDatetime(d) = NaT

\* date().isoformat() of a Timestamp of the model's period dates.
IsoFormat(ts) ==
    CASE ts.day = 1 -> "2024-01-01"
      [] ts.day = 2 -> "2024-01-02"
      [] ts.day = 3 -> "2024-01-03"
      [] ts.day = 8 -> "2024-01-08"
      [] ts.day = 10 -> "2024-01-10"
      [] ts.day = 15 -> "2024-01-15"
      [] OTHER -> "?"

\* (end_ts - start_ts).days: whole days, rounded down.
TimedeltaDays(start_ts, end_ts) ==
    LET h == (end_ts.day * 24 + end_ts.hour) - (start_ts.day * 24 + start_ts.hour)
    IN  IF h >= 0 THEN h \div 24 ELSE -((-h + 23) \div 24)

RaisedResult(fn, e) == [NoResult EXCEPT !.status = "raised", !.fn = fn, !.error = e]

\* lines 63-70 and 75-82: the result of a forecast that cannot be made.
EmptyDaysResultNoEcho(num_work_items, num_iterations) ==
    [NoResult EXCEPT !.status = "returned", !.fn = "days"]

EmptyDaysResult(num_work_items, num_iterations) ==
    [NoResult EXCEPT !.status = "returned", !.fn = "days",
                     !.num_work_items = num_work_items,
                     !.num_iterations = num_iterations]

\* lines 122-129 and 136-145
EmptyPeriodResult(start_date, end_date, num_iterations) ==
    [NoResult EXCEPT !.status = "returned", !.fn = "period",
                     !.start_date = start_date, !.end_date = end_date,
                     !.num_iterations = num_iterations]

Locals == <<total, walk, simulated_totals, simulated_cycle_times, totals, n, spin>>

ClearLocals ==
    /\ total' = <<>>
    /\ walk' = <<>>
    /\ simulated_totals' = <<>>
    /\ simulated_cycle_times' = <<>>
    /\ totals' = <<>>
    /\ n' = 0
    /\ spin' = 0

Return(r) ==
    /\ result' = r
    /\ pc' = "idle"
    /\ ClearLocals

\* What a forecast leaves alone: the caller's table, the simulator, and the
\* dashboard's widgets.
object == <<given, data, sim, self_df, dashboard>>

\* ------------------------------------------- forecast days for work items
\* _forecast_days_for_work_items(df, num_work_items, num_iterations), up to
\* the first trial (lines 63-90).
DaysCall(via, df, num_work_items, num_iterations) ==
    [NoCall EXCEPT !.fn = "days", !.via = via, !.df = df,
                   !.num_work_items = num_work_items,
                   !.num_iterations = num_iterations]

EnterDays(via, df, num_work_items, num_iterations, today) ==
    IF df.is_none \/ "cycle_time_days" \notin df.columns
    THEN /\ call' = DaysCall(via, df, num_work_items, num_iterations)
         /\ Return(EmptyDaysResult(num_work_items, num_iterations))
    ELSE /\ call' = [DaysCall(via, df, num_work_items, num_iterations)
                        EXCEPT !.start_ts = today]
         /\ IF Len(df.cycle_time_days) = 0
            THEN Return(EmptyDaysResult(num_work_items, num_iterations))
            ELSE /\ pc' = "days_for"
                 /\ result' = NoResult
                 /\ ClearLocals

\* lines 258-261: the request is refused
InvalidDaysRequestIterationsOnly(num_work_items, num_iterations) ==
    num_iterations <= 0

InvalidDaysRequest(num_work_items, num_iterations) ==
    num_work_items <= 0 \/ num_iterations <= 0

\* MonteCarloSimulator.forecast_days_for_work_items(num_work_items, num_iterations)
SimForecastDays(num_work_items, num_iterations) ==
    /\ sim = "built"
    /\ pc = "idle"
    /\ IF InvalidDaysRequest(num_work_items, num_iterations)
       THEN /\ call' = DaysCall("method", self_df, num_work_items, num_iterations)
            /\ Return(RaisedResult("days", "ValueError"))
       ELSE \E today \in Todays :
                EnterDays("method", self_df, num_work_items, num_iterations, today)
    /\ UNCHANGED object

\* _forecast_days_for_work_items called with a frame that is no sample.
FnForecastDays(df, num_work_items, num_iterations) ==
    /\ pc = "idle"
    /\ \E today \in Todays :
           EnterDays("function", df, num_work_items, num_iterations, today)
    /\ UNCHANGED object

\* The start dates the dashboard's date picker hands over.
StartDates == {Ts(22, 0)}

\* num_iterations=5000 of the dashboard's calls
DashboardIterations == 5000

\* src/dashboard.py, update_work_items_results(num_cards, start_date): the
\* dashboard calls forecast_days_for_work_items(num_work_items=...,
\* filename=..., num_iterations=5000, start_date=start_date).  No
\* forecast_days_for_work_items under src/ has a start_date parameter
\* (src/monte_carlo.py:53-58, src/src/monte_carlo.py:57-61), so the call
\* raises TypeError before the file is read; df is the table of the file.
UpdateWorkItemsResults(df, num_cards, start_date) ==
    /\ pc = "idle"
    /\ call' = [DaysCall("dashboard", df, num_cards, DashboardIterations)
                   EXCEPT !.reference_start = start_date]
    /\ Return(RaisedResult("days", "TypeError"))
    /\ UNCHANGED object

\* cumulative_sum: total = [0]
FreshTotalCarries == IF walk = <<>> THEN <<0>> ELSE <<Last(walk)>>

FreshTotal == <<0>>

\* cumulative_sum: `for _ in range(total_work_items)` has draws left
DrawsLeftOneLess(t, total_work_items) == Len(t) < total_work_items

DrawsLeftOneMore(t, total_work_items) == Len(t) - 1 < total_work_items + 1

DrawsLeft(t, total_work_items) == Len(t) - 1 < total_work_items

\* `for _ in range(num_iterations)` has trials left (lines 91, 149)
TrialsLeft(done, num_iterations) == Len(done) < num_iterations

\* line 91-92: the next trial calls cumulative_sum
BeginTrialDays ==
    /\ pc = "days_for"
    /\ TrialsLeft(simulated_totals, call.num_iterations)
    /\ total' = FreshTotal
    /\ pc' = "cumulative_sum"
    /\ UNCHANGED <<object, call, walk, simulated_totals, simulated_cycle_times,
                   totals, n, spin, result>>

\* line 87: total.append(selector(cycle_times) + total[-1]), selector being
\* random.choice: any element of the sample.
DrawDays(i) ==
    /\ pc = "cumulative_sum"
    /\ DrawsLeft(total, call.num_work_items)
    /\ i \in DOMAIN call.df.cycle_time_days
    /\ total' = Append(total, call.df.cycle_time_days[i] + Last(total))
    /\ UNCHANGED <<object, pc, call, walk, simulated_totals, simulated_cycle_times,
                   totals, n, spin, result>>

\* lines 88 and 92-93: cumulative_sum returns, the trial's total is kept
EndTrialDays ==
    /\ pc = "cumulative_sum"
    /\ ~DrawsLeft(total, call.num_work_items)
    /\ walk' = total
    /\ simulated_totals' = Append(simulated_totals, Last(total))
    /\ pc' = "days_for"
    /\ UNCHANGED <<object, call, total, simulated_cycle_times, totals, n, spin,
                   result>>

\* lines 95-112
DaysResult ==
    LET percentiles == Percentiles(simulated_totals)
    IN  [NoResult EXCEPT !.status = "returned", !.fn = "days",
                         !.outcomes = simulated_totals,
                         !.percentiles = percentiles,
                         !.percentile_dates = PercentileDates(percentiles, call.start_ts),
                         !.num_work_items = call.num_work_items,
                         !.num_iterations = call.num_iterations]

ReturnDays ==
    /\ pc = "days_for"
    /\ ~TrialsLeft(simulated_totals, call.num_iterations)
    /\ Return(DaysResult)
    /\ UNCHANGED <<object, call>>

\* ------------------------------------------- forecast work items in period
\* _forecast_work_items_in_period(df, start_date, end_date, num_iterations),
\* up to the first trial (lines 122-147).
PeriodCall(via, df, start_date, end_date, num_iterations) ==
    [NoCall EXCEPT !.fn = "period", !.via = via, !.df = df,
                   !.start_date = start_date, !.end_date = end_date,
                   !.num_iterations = num_iterations]

EnterPeriod(via, df, start_date, end_date, num_iterations) ==
    IF df.is_none \/ "cycle_time_days" \notin df.columns
    THEN /\ call' = PeriodCall(via, df, start_date, end_date, num_iterations)
         /\ Return(EmptyPeriodResult("None", "None", num_iterations))
    ELSE IF TimestampRaises(start_date) \/ TimestampRaises(end_date)
    THEN /\ call' = PeriodCall(via, df, start_date, end_date, num_iterations)
         /\ Return(RaisedResult("period", "ValueError"))
    ELSE LET start_ts == ToDatetime(start_date)
             end_ts == ToDatetime(end_date)
         IN  /\ call' = [PeriodCall(via, df, start_date, end_date, num_iterations)
                            EXCEPT !.start_ts = start_ts,
                                   !.end_ts = end_ts,
                                   !.max_days = TimedeltaDays(start_ts, end_ts)]
             /\ IF Len(df.cycle_time_days) = 0
                THEN Return(EmptyPeriodResult(IsoFormat(start_ts), IsoFormat(end_ts),
                                              num_iterations))
                ELSE /\ pc' = "period_for"
                     /\ result' = NoResult
                     /\ ClearLocals

\* lines 281-293: the request is refused
InvalidPeriodRequest(start_date, end_date, num_iterations) ==
    \/ NotNonEmptyStr(start_date)
    \/ NotNonEmptyStr(end_date)
    \/ num_iterations <= 0
    \/ TimestampRaises(start_date)
    \/ TimestampRaises(end_date)

\* MonteCarloSimulator.forecast_work_items_in_period(start_date, end_date,
\* num_iterations)
SimForecastPeriod(start_date, end_date, num_iterations) ==
    /\ sim = "built"
    /\ pc = "idle"
    /\ IF InvalidPeriodRequest(start_date, end_date, num_iterations)
       THEN /\ call' = PeriodCall("method", self_df, start_date, end_date,
                                  num_iterations)
            /\ Return(RaisedResult("period", "ValueError"))
       ELSE EnterPeriod("method", self_df, start_date, end_date, num_iterations)
    /\ UNCHANGED object

\* _forecast_work_items_in_period called with a frame that is no sample.
FnForecastPeriod(df, start_date, end_date, num_iterations) ==
    /\ pc = "idle"
    /\ EnterPeriod("function", df, start_date, end_date, num_iterations)
    /\ UNCHANGED object

\* line 153: `if n > max_days`
ExceedsByMoreThanOne(m, max_days) == m > max_days + 1

ExceedsOrReaches(m, max_days) == m >= max_days

Exceeds(m, max_days) == m > max_days

\* line 157: len(simulated_cycle_times) - 1
ItemCountWithCrossing(sct) == Len(sct)

ItemCount(sct) == Len(sct) - 1

\* lines 149-150: the next trial starts its walk
BeginTrialPeriod ==
    /\ pc = "period_for"
    /\ TrialsLeft(totals, call.num_iterations)
    /\ simulated_cycle_times' = <<0>>
    /\ spin' = 0
    /\ pc' = "while"
    /\ UNCHANGED <<object, call, total, walk, simulated_totals, totals, n, result>>

\* lines 152-156: a draw that stays within max_days is appended.  A walk of
\* MaxWalk elements keeps its length: the new total replaces its last
\* element, and spin records that this happened.
\* random.choice draws the i-th element.
ContinuePeriod(i) ==
    /\ pc = "while"
    /\ i \in DOMAIN call.df.cycle_time_days
    /\ LET m == call.df.cycle_time_days[i] + Last(simulated_cycle_times)
       IN  /\ ~Exceeds(m, call.max_days)
           /\ n' = m
           /\ IF Len(simulated_cycle_times) < MaxWalk
              THEN /\ simulated_cycle_times' = Append(simulated_cycle_times, m)
                   /\ spin' = spin
              ELSE /\ simulated_cycle_times' =
                          [simulated_cycle_times EXCEPT ![MaxWalk] = m]
                   /\ spin' = IF spin = 1 THEN 2 ELSE 1
    /\ UNCHANGED <<object, pc, call, total, walk, simulated_totals, totals, result>>

\* lines 152-154 and 157: the draw that crosses max_days ends the trial
BreakPeriod(i) ==
    /\ pc = "while"
    /\ i \in DOMAIN call.df.cycle_time_days
    /\ LET m == call.df.cycle_time_days[i] + Last(simulated_cycle_times)
       IN  /\ Exceeds(m, call.max_days)
           /\ n' = m
    /\ totals' = Append(totals, ItemCount(simulated_cycle_times))
    /\ pc' = "period_for"
    /\ UNCHANGED <<object, call, total, walk, simulated_totals,
                   simulated_cycle_times, spin, result>>

\* lines 160-174
PeriodResult ==
    [NoResult EXCEPT !.status = "returned", !.fn = "period",
                     !.outcomes = totals,
                     !.percentiles = Percentiles(totals),
                     !.start_date = IsoFormat(call.start_ts),
                     !.end_date = IsoFormat(call.end_ts),
                     !.num_iterations = call.num_iterations]

ReturnPeriod ==
    /\ pc = "period_for"
    /\ ~TrialsLeft(totals, call.num_iterations)
    /\ Return(PeriodResult)
    /\ UNCHANGED <<object, call>>

\* ------------------------------------------------- trials on given draws
\* cumulative_sum(total_work_items, cycle_times, selector), lines 84-88, for
\* a selector that hands out `draws` in turn, continued from the list t.
RECURSIVE CumulativeSum(_, _, _)
CumulativeSum(t, total_work_items, draws) ==
    IF DrawsLeft(t, total_work_items)
    THEN CumulativeSum(Append(t, Head(draws) + Last(t)), total_work_items,
                       Tail(draws))
    ELSE t

\* One pass of the `for` loop of simulate_days, lines 150-156, whose
\* random.choice hands out `draws` in turn, continued from the walk sct.
RECURSIVE SimulateTrial(_, _, _)
SimulateTrial(sct, max_days, draws) ==
    IF Exceeds(Head(draws) + Last(sct), max_days) THEN sct
    ELSE SimulateTrial(Append(sct, Head(draws) + Last(sct)), max_days, Tail(draws))

\* One trial of each forecast on the same draws: cumulative_sum for
\* total_work_items items (lines 91-93) and the simulate_days loop for
\* max_days days (lines 149-157).
TrialsOnDraws(draws, total_work_items, max_days) ==
    /\ pc = "idle"
    /\ call' = [NoCall EXCEPT !.fn = "trials", !.via = "function",
                              !.draws = draws,
                              !.num_work_items = total_work_items,
                              !.max_days = max_days]
    /\ total' = CumulativeSum(FreshTotal, total_work_items, draws)
    /\ simulated_totals' = <<Last(total')>>
    /\ simulated_cycle_times' = SimulateTrial(<<0>>, max_days, draws)
    /\ totals' = <<ItemCount(simulated_cycle_times')>>
    /\ UNCHANGED <<object, pc, walk, n, spin, result>>

\* ------------------------------------------------------------- statistics
\* line 179: there is nothing to report on
StatsDegenerate(df) ==
    df.is_none \/ IsEmpty(df) \/ "cycle_time_days" \notin df.columns

\* lines 180-186
NoDataStatisticsNoMarker ==
    [NoResult EXCEPT !.status = "returned", !.fn = "stats"]

NoDataStatistics ==
    [NoResult EXCEPT !.status = "returned", !.fn = "stats",
                     !.error = "No valid data available"]

\* Series.min() and Series.max()
SeriesMin(s) == Sorted(s)[1]

SeriesMax(s) == Last(Sorted(s))

\* Series.median(), in hundredths: the middle value, or the mean of the two
\* middle values of an even number of values.
SeriesMedianUpperMiddle(s) == 100 * Sorted(s)[Len(s) \div 2 + 1]

SeriesMedian(s) ==
    LET srt == Sorted(s)
        half == Len(s) \div 2
    IN  IF Len(s) % 2 = 1 THEN 100 * srt[half + 1]
        ELSE 50 * (srt[half] + srt[half + 1])

\* _get_data_statistics(df); "error": None is the empty error.
GetDataStatistics(df) ==
    IF StatsDegenerate(df) THEN NoDataStatistics
    ELSE [NoResult EXCEPT !.status = "returned", !.fn = "stats",
                          !.total_items = df.nrows,
                          !.min_cycle_time = SeriesMin(df.cycle_time_days),
                          !.max_cycle_time = SeriesMax(df.cycle_time_days),
                          !.median_cycle_time = SeriesMedian(df.cycle_time_days)]

StatsCall(via, df) == [NoCall EXCEPT !.fn = "stats", !.via = via, !.df = df]

\* MonteCarloSimulator.get_data_statistics()
SimGetDataStatistics ==
    /\ sim = "built"
    /\ pc = "idle"
    /\ call' = StatsCall("method", self_df)
    /\ Return(GetDataStatistics(self_df))
    /\ UNCHANGED object

\* pd.DataFrame(): no columns and no rows.
EmptyFrame == Frame({}, <<>>, <<>>, <<>>)

\* pd.DataFrame({"cycle_time_days": [2, 4, 6, 8, 10]})
StatisticsExample == Frame({"cycle_time_days"}, <<>>, <<>>, <<2, 4, 6, 8, 10>>)

\* The frames _get_data_statistics is handed without a simulator.
StatsFrames == GuardFrames \cup {EmptyFrame, IdFrame(0), StatisticsExample}

\* _get_data_statistics(df) called on its own.
FnGetDataStatistics(df) ==
    /\ pc = "idle"
    /\ call' = StatsCall("function", df)
    /\ Return(GetDataStatistics(df))
    /\ UNCHANGED object

\* ------------------------------------------------------- throughput text
\* parse_throughput_from_text(text) and the statistics of a throughput
\* sample are not in the source files; they are modelled from the
\* specification (4.1 and 4.3) and from tests/test_monte_carlo.py.
\* Numbers are whole numbers here; a throughput value is kept as an integer.

\* The characters a throughput text is made of: digits, the comma, the
\* space, the minus sign, and a letter.
TextChars == {"1", "0", ",", " ", "-", "x"}

\* the hard cap on the number of values
MaxThroughputValues == 1000

\* The texts of the specification's and the tests' examples.
ExampleTexts ==
    {<<"2", ",", " ", "3", ",", " ", "5", ",", " ", "2">>,
     <<"2", ",", ",", "3">>,
     <<"2", ",", "3", ",", "-", "1">>,
     <<"2", ",", "0", ",", "3", ",", "0">>,
     <<" ", " ", "2", ",", "3", ",", "5", ",", "2", " ", " ">>,
     <<"2", ",", "4", ",", "6", ",", "8", ",", "1", "0">>}

\* ",".join(["1"] * 1000) and ",".join(["1"] * 1001)
LargeTexts ==
    {JoinedText(<<"1">>, k) : k \in {MaxThroughputValues, MaxThroughputValues + 1}}

ThroughputTexts ==
    {CharsText(c) : c \in SeqsUpTo(TextChars, 0, MaxText) \cup ExampleTexts}
    \cup LargeTexts

\* str.strip(): the surrounding whitespace removed
RECURSIVE LStrip(_)
LStrip(s) == IF s # <<>> /\ Head(s) = " " THEN LStrip(Tail(s)) ELSE s

RECURSIVE RStrip(_)
RStrip(s) ==
    IF s # <<>> /\ Last(s) = " " THEN RStrip(SubSeq(s, 1, Len(s) - 1)) ELSE s

StripLeftOnly(s) == LStrip(s)

Strip(s) == RStrip(LStrip(s))

\* split on comma
RECURSIVE SplitComma(_)
SplitComma(s) ==
    IF \A i \in DOMAIN s : s[i] # "," THEN <<s>>
    ELSE LET i == CHOOSE i \in DOMAIN s :
                      s[i] = "," /\ \A j \in 1..(i - 1) : s[j] # ","
         IN  <<SubSeq(s, 1, i - 1)>> \o SplitComma(SubSeq(s, i + 1, Len(s)))

\* The tokens of a text; those of ",".join([token] * count) are count times
\* the token.
Split(text) ==
    IF text.kind = "join" THEN [i \in 1..text.count |-> text.token]
    ELSE SplitComma(text.chars)

\* the trimmed input is empty
TrimmedEmpty(text) ==
    IF text.kind = "join" THEN text.count = 0 \/ (text.count = 1 /\ Strip(text.token) = <<>>)
    ELSE Strip(text.chars) = <<>>

\* trim each token, drop the empty ones
NonEmpty(tok) == tok # <<>>

Tokens(text) ==
    LET parts == Split(text)
    IN  SelectSeq([i \in DOMAIN parts |-> Strip(parts[i])], NonEmpty)

DigitValue(c) ==
    CASE c = "0" -> 0 [] c = "1" -> 1 [] c = "2" -> 2 [] c = "3" -> 3
      [] c = "4" -> 4 [] c = "5" -> 5 [] c = "6" -> 6 [] c = "7" -> 7
      [] c = "8" -> 8 [] c = "9" -> 9 [] OTHER -> -1

\* a token parses as a number: digits, after an optional minus sign
IsNumeric(tok) ==
    LET body == IF tok # <<>> /\ Head(tok) = "-" THEN Tail(tok) ELSE tok
    IN  body # <<>> /\ \A i \in DOMAIN body : DigitValue(body[i]) >= 0

RECURSIVE Unsigned(_)
Unsigned(body) ==
    IF body = <<>> THEN 0
    ELSE 10 * Unsigned(SubSeq(body, 1, Len(body) - 1)) + DigitValue(Last(body))

\* the number a numeric token stands for
NumberOf(tok) == IF Head(tok) = "-" THEN -Unsigned(Tail(tok)) ELSE Unsigned(tok)

\* the token count exceeds the cap
TooManyFromCap(values) == Len(values) >= MaxThroughputValues

TooMany(values) == Len(values) > MaxThroughputValues

\* parse_throughput_from_text(text): the sample, or ValueError.
ParseThroughputFromText(text) ==
    IF TrimmedEmpty(text) THEN RaisedResult("parse", "ValueError")
    ELSE LET tokens == Tokens(text)
         IN  IF \E i \in DOMAIN tokens : ~IsNumeric(tokens[i])
             THEN RaisedResult("parse", "ValueError")
             ELSE LET values == [i \in DOMAIN tokens |-> NumberOf(tokens[i])]
                  IN  IF \E i \in DOMAIN values : values[i] < 0
                      THEN RaisedResult("parse", "ValueError")
                      ELSE IF TooMany(values)
                      THEN RaisedResult("parse", "ValueError")
                      ELSE [NoResult EXCEPT !.status = "returned", !.fn = "parse",
                                            !.throughput = values]

\* df = parse_throughput_from_text(text)
ParseThroughput(text) ==
    /\ pc = "idle"
    /\ call' = [NoCall EXCEPT !.fn = "parse", !.via = "function", !.text = text]
    /\ Return(ParseThroughputFromText(text))
    /\ UNCHANGED object

RECURSIVE SumOf(_)
SumOf(s) == IF s = <<>> THEN 0 ELSE Head(s) + SumOf(Tail(s))

\* the mean, in hundredths, rounded down
SeriesMean(s) == (100 * SumOf(s)) \div Len(s)

\* get_data_statistics(df) of a throughput sample: the report of 4.3, with
\* the mean.
ThroughputStatistics(throughput) ==
    IF throughput = <<>>
    THEN [NoResult EXCEPT !.status = "returned", !.fn = "throughput_stats",
                          !.error = "No valid data available"]
    ELSE [NoResult EXCEPT !.status = "returned", !.fn = "throughput_stats",
                          !.throughput = throughput,
                          !.total_weeks = Len(throughput),
                          !.min_throughput = SeriesMin(throughput),
                          !.max_throughput = SeriesMax(throughput),
                          !.median_throughput = SeriesMedian(throughput),
                          !.avg_throughput = SeriesMean(throughput)]

\* get_data_statistics(df), df the sample the text was parsed to (of the
\* texts given character by character)
GetThroughputStatistics ==
    /\ pc = "idle"
    /\ result.fn = "parse"
    /\ result.status = "returned"
    /\ call.text.kind = "chars"
    /\ call' = [call EXCEPT !.fn = "throughput_stats"]
    /\ Return(ThroughputStatistics(result.throughput))
    /\ UNCHANGED object

\* ------------------------------------------------------ next business day
\* datetime.now(): a day of January 2024 and an hour of it.
Nows == {Ts(d, h) : d \in 1..14, h \in {0, 18}}

\* datetime.weekday(): Monday is 0 and Sunday is 6; 2024-01-01 is a Monday.
Weekday(ts) == (ts.day - 1) % 7

\* line 315: `next_day.weekday() >= 5`
IsWeekendSundayOnly(next_day) == Weekday(next_day) >= 6

IsWeekend(next_day) == Weekday(next_day) >= 5

\* lines 315-316: the while loop, `next_day += timedelta(days=1)`
RECURSIVE SkipWeekend(_)
SkipWeekend(next_day) ==
    IF IsWeekend(next_day) THEN SkipWeekend(Ts(next_day.day + 1, next_day.hour))
    ELSE next_day

\* get_next_business_day(), datetime.now() being `now`: line 314 is
\* next_day = datetime.now() + timedelta(days=1)
GetNextBusinessDay(now) == DtDate(SkipWeekend(Ts(now.day + 1, now.hour)))

NextBusinessDay(now) ==
    /\ pc = "idle"
    /\ call' = [NoCall EXCEPT !.fn = "business_day", !.via = "function",
                              !.start_ts = now]
    /\ Return([NoResult EXCEPT !.status = "returned", !.fn = "business_day",
                               !.next_day = GetNextBusinessDay(now)])
    /\ UNCHANGED object

\* ------------------------------------------------- cleaning and filtering
\* src/src/dashboard.py.  A cell of the tags column is NaN (the CSV field was
\* empty) or a string, kept as its characters; a tag is the characters of
\* its name.
MissingTags == [nan |-> TRUE, chars |-> <<>>]

TagsCell(chars) == [nan |-> FALSE, chars |-> chars]

\* pd.DataFrame({"cycle_time_days": ct, "tags": tags})
TaggedFrame(ct, tags) ==
    [Frame({"cycle_time_days", "tags"}, <<>>, <<>>, ct) EXCEPT !.tags = tags]

\* line 84: [tag.strip() for tag in str(tags_str).split(",")]
RowTags(cell) ==
    LET parts == SplitComma(cell.chars)
    IN  {Strip(parts[i]) : i \in DOMAIN parts}

\* lines 80-86: the row is included
IncludeRowTaggedOnly(cell, selected_tags) == RowTags(cell) \cap selected_tags # {}

IncludeRow(cell, selected_tags) ==
    \/ cell.nan
    \/ Strip(cell.chars) = <<>>
    \/ RowTags(cell) \cap selected_tags # {}

\* df[mask]: the rows of df at the places in keep, in their order
SelectRows(df, keep) ==
    LET k == Cardinality(keep)
        idx == CHOOSE f \in [1..k -> keep] : \A a, b \in 1..k : a < b => f[a] < f[b]
    IN  [df EXCEPT !.cycle_time_days = [j \in 1..k |-> df.cycle_time_days[idx[j]]],
                   !.tags = IF df.tags = <<>> THEN <<>>
                            ELSE [j \in 1..k |-> df.tags[idx[j]]],
                   !.nrows = k]

\* pd.DataFrame({"Error": [...]}), lines 90 and 101
ErrorFrame == [Frame({"Error"}, <<>>, <<>>, <<>>) EXCEPT !.nrows = 1]

\* clean_and_filter_data(df, selected_tags); selected_tags None or [] is the
\* empty selection.  Without the cycle_time_days column, line 76 raises
\* KeyError and line 90 returns the error table.
CleanAndFilterData(df, selected_tags) ==
    IF df.is_none \/ "cycle_time_days" \notin df.columns THEN ErrorFrame
    ELSE LET cleaned ==
                 SelectRows(df, {i \in 1..df.nrows : df.cycle_time_days[i] > 0})
         IN  IF selected_tags # {} /\ "tags" \in cleaned.columns
             THEN SelectRows(cleaned,
                             {i \in 1..cleaned.nrows :
                                  IncludeRow(cleaned.tags[i], selected_tags)})
             ELSE cleaned

\* The tables the function is applied to: rows with a cycle time and a tags
\* cell (missing, blank, one tag, two tags, a tag after a space), tables
\* without a tags column, and a table without the cycle_time_days column.
FilterFrames ==
    LET TagCells ==
            {MissingTags}
            \cup {TagsCell(c) : c \in {<<>>, <<" ">>, <<"a">>, <<"b">>,
                                       <<"a", ",", " ", "b">>, <<" ", "c">>}}
    IN  {TaggedFrame(ct, tags) :
            <<ct, tags>> \in UNION {[1..k -> {0, 2}] \X [1..k -> TagCells] :
                                       k \in 0..MaxRows}}
        \cup DirectFrames(0, MaxRows) \cup {IdFrame(1)}

\* cleaned = clean_and_filter_data(df, selected_tags)
CleanAndFilter(df, selected_tags) ==
    /\ pc = "idle"
    /\ call' = [NoCall EXCEPT !.fn = "clean", !.via = "function", !.df = df,
                              !.selected_tags = selected_tags]
    /\ Return([NoResult EXCEPT !.status = "returned", !.fn = "clean",
                               !.df = CleanAndFilterData(df, selected_tags)])
    /\ UNCHANGED object

\* ---------------------------------------------------- throughput forecasts
\* forecast_days_for_work_items(df, ...) and forecast_work_items_in_period(df,
\* ...) of a throughput sample are not in the source files; they are
\* modelled from the specification (4.2, Operations A' and B') and from
\* tests/test_monte_carlo.py.  `total` is the list of the running item counts
\* of the current trial, starting with 0: its last element is the items
\* completed so far, its length less one the weeks elapsed.

\* The weekly counts of a throughput sample.
ThroughputValues == {0, 1, 2}

\* pd.DataFrame({"throughput": tp})
ThroughputFrame(tp) ==
    [Frame({"throughput"}, <<>>, <<>>, <<>>) EXCEPT !.throughput = tp,
                                                    !.nrows = Len(tp)]

\* The tables the throughput forecasts are handed: throughput samples, the
\* empty one among them, and a table without the throughput column.
ThroughputFrames ==
    {ThroughputFrame(tp) : tp \in SeqsUpTo(ThroughputValues, 0, MaxRows)}
    \cup {IdFrame(1)}

\* the guard: no table, no throughput column, or an empty sample
NoThroughput(df) ==
    df.is_none \/ "throughput" \notin df.columns \/ Len(df.throughput) = 0

\* the days of a week: weeks elapsed -> days, days of a period -> weeks
DaysPerWeek == 7

\* the running total has reached the target
ReachedStrictlyAbove(items_completed, target) == items_completed > target

Reached(items_completed, target) == items_completed >= target

\* forecast_days_for_work_items(df, num_work_items, num_iterations) of the
\* throughput variant, up to the first trial.
ThroughputForecastDays(df, num_work_items, num_iterations) ==
    /\ pc = "idle"
    /\ \E today \in Todays :
           call' = [DaysCall("function", df, num_work_items, num_iterations)
                       EXCEPT !.fn = "throughput_days", !.start_ts = today]
    /\ IF NoThroughput(df)
       THEN Return([EmptyDaysResult(num_work_items, num_iterations)
                       EXCEPT !.fn = "throughput_days"])
       ELSE /\ pc' = "weeks_for"
            /\ result' = NoResult
            /\ ClearLocals
    /\ UNCHANGED object

\* the next trial starts with no items completed and no weeks elapsed
BeginTrialWeeks ==
    /\ pc = "weeks_for"
    /\ TrialsLeft(simulated_totals, call.num_iterations)
    /\ total' = <<0>>
    /\ pc' = "weeks_while"
    /\ UNCHANGED <<object, call, walk, simulated_totals, simulated_cycle_times,
                   totals, n, spin, result>>

\* one more week: a weekly throughput is drawn with replacement and added.
\* A trial is followed for MaxWalk weeks.
DrawWeek(i) ==
    /\ pc = "weeks_while"
    /\ ~Reached(Last(total), call.num_work_items)
    /\ Len(total) <= MaxWalk
    /\ i \in DOMAIN call.df.throughput
    /\ total' = Append(total, Last(total) + call.df.throughput[i])
    /\ UNCHANGED <<object, pc, call, walk, simulated_totals, simulated_cycle_times,
                   totals, n, spin, result>>

\* the target is reached: the weeks consumed are recorded, in days
EndTrialWeeks ==
    /\ pc = "weeks_while"
    /\ Reached(Last(total), call.num_work_items)
    /\ walk' = total
    /\ simulated_totals' = Append(simulated_totals, (Len(total) - 1) * DaysPerWeek)
    /\ pc' = "weeks_for"
    /\ UNCHANGED <<object, call, total, simulated_cycle_times, totals, n, spin,
                   result>>

\* percentiles and projected dates as in Operation A
ReturnThroughputDays ==
    /\ pc = "weeks_for"
    /\ ~TrialsLeft(simulated_totals, call.num_iterations)
    /\ Return([DaysResult EXCEPT !.fn = "throughput_days"])
    /\ UNCHANGED <<object, call>>

\* The period bounds the throughput forecast is asked for.
ThroughputStarts == {Str("2024-01-01"), Str("2024-01-03")}

ThroughputEnds ==
    {Str("2024-01-01"), Str("2024-01-03"), Str("2024-01-08"), Str("2024-01-15")}

\* `while weeks_elapsed < total_weeks`, total_weeks = total_days / 7
WeeksRemainOrEqual(weeks_elapsed, total_days) ==
    weeks_elapsed * DaysPerWeek <= total_days

WeeksRemain(weeks_elapsed, total_days) == weeks_elapsed * DaysPerWeek < total_days

\* forecast_work_items_in_period(df, start_date, end_date, num_iterations) of
\* the throughput variant, up to the first trial; max_days is the period's
\* length in days.
ThroughputForecastPeriod(df, start_date, end_date, num_iterations) ==
    /\ pc = "idle"
    /\ LET start_ts == ToDatetime(start_date)
           end_ts == ToDatetime(end_date)
       IN  /\ call' = [PeriodCall("function", df, start_date, end_date,
                                  num_iterations)
                          EXCEPT !.fn = "throughput_period",
                                 !.start_ts = start_ts,
                                 !.end_ts = end_ts,
                                 !.max_days = TimedeltaDays(start_ts, end_ts)]
           /\ IF NoThroughput(df)
              THEN Return([EmptyPeriodResult(IsoFormat(start_ts), IsoFormat(end_ts),
                                             num_iterations)
                              EXCEPT !.fn = "throughput_period"])
              ELSE /\ pc' = "items_for"
                   /\ result' = NoResult
                   /\ ClearLocals
    /\ UNCHANGED object

BeginTrialItems ==
    /\ pc = "items_for"
    /\ TrialsLeft(totals, call.num_iterations)
    /\ total' = <<0>>
    /\ pc' = "items_while"
    /\ UNCHANGED <<object, call, walk, simulated_totals, simulated_cycle_times,
                   totals, n, spin, result>>

\* one more week of the period: a weekly throughput is drawn and added
DrawItems(i) ==
    /\ pc = "items_while"
    /\ WeeksRemain(Len(total) - 1, call.max_days)
    /\ i \in DOMAIN call.df.throughput
    /\ total' = Append(total, Last(total) + call.df.throughput[i])
    /\ UNCHANGED <<object, pc, call, walk, simulated_totals, simulated_cycle_times,
                   totals, n, spin, result>>

\* the weeks of the period are used up: the accumulated item count is the
\* trial's result
EndTrialItems ==
    /\ pc = "items_while"
    /\ ~WeeksRemain(Len(total) - 1, call.max_days)
    /\ walk' = total
    /\ totals' = Append(totals, Last(total))
    /\ pc' = "items_for"
    /\ UNCHANGED <<object, call, total, simulated_totals, simulated_cycle_times,
                   n, spin, result>>

ReturnThroughputPeriod ==
    /\ pc = "items_for"
    /\ ~TrialsLeft(totals, call.num_iterations)
    /\ Return([PeriodResult EXCEPT !.fn = "throughput_period"])
    /\ UNCHANGED <<object, call>>

\* -------------------------------------------------------------- dashboard
\* src/src/dashboard.py.  `dashboard` holds the widgets' values and what the
\* panes show: active_simulation.value, help_visible.value, the title of the
\* page get_main_content rendered, file_selector.value, tag_checkboxes (its
\* visible flag, the names of its checkboxes and those that are checked) and
\* data_preview_pane.object.  The three pages are named by their labels,
\* "Data Source", "When will it be done?" and "How many items?", without their emoji.

\* The CSV files of data/.
CsvFiles ==
    {"data/data_clean.csv", "data/a.csv", "data/b.csv", "data/late.csv",
     "data/ids.csv"}

\* pd.read_csv(filename): the table of each file.  The files have fewer than
\* 100 rows, so that head(100) of a table is the table.
ReadCsv(filename) ==
    CASE filename = "data/data_clean.csv" ->
             Frame({"cycle_time_days"}, <<>>, <<>>, <<1, 0, 2>>)
      [] filename = "data/a.csv" ->
             TaggedFrame(<<1, 2, 0>>,
                         <<TagsCell(<<"a">>), TagsCell(<<"b">>), TagsCell(<<"a">>)>>)
      [] filename = "data/b.csv" ->
             TaggedFrame(<<1, 2, 2>>,
                         <<TagsCell(<<"b">>), TagsCell(<<" ", "c">>), MissingTags>>)
      [] filename = "data/late.csv" ->
             Frame({"cycle_time_days"}, <<>>, <<>>, <<0>>)
      [] filename = "data/ids.csv" -> IdFrame(1)

\* load_and_clean_data(filename, selected_tags), lines 96-104
LoadAndCleanData(filename, selected_tags) ==
    CleanAndFilterData(ReadCsv(filename), selected_tags)

\* get_main_content(show_help, sim_type): the title of what is shown
GetMainContentIgnoringHelp(show_help, sim_type) == sim_type

GetMainContent(show_help, sim_type) ==
    IF show_help THEN "About Monte Carlo Simulation"
    ELSE IF sim_type = "When will it be done?" THEN "When will it be done?"
    ELSE IF sim_type = "How many items?" THEN "How many items?"
    ELSE "Data Source"

\* The module's top level: the widgets as they are created (lines 47-58,
\* 150-165, 324-340), data/data_clean.csv being among the files.
InitialDashboard ==
    [active_simulation |-> "Data Source",
     help_visible |-> FALSE,
     main_content |-> GetMainContent(FALSE, "Data Source"),
     file_selector |-> "data/data_clean.csv",
     tag_checkboxes |-> [visible |-> FALSE, names |-> {}, checked |-> {}],
     data_preview_pane |-> LoadAndCleanData("data/data_clean.csv", {})]

\* set_when_active, set_how_many_active and set_data_source_active: a click
\* on the button of the page `label`; get_main_content renders again.
SetActive(label) ==
    /\ pc = "idle"
    /\ dashboard' = [dashboard EXCEPT !.help_visible = FALSE,
                                      !.active_simulation = label,
                                      !.main_content = GetMainContent(FALSE, label)]
    /\ UNCHANGED <<given, data, sim, self_df, engine>>

\* A click on the help toggle; get_main_content renders again.
ToggleHelp ==
    /\ pc = "idle"
    /\ dashboard' =
           [dashboard EXCEPT !.help_visible = ~dashboard.help_visible,
                             !.main_content =
                                 GetMainContent(~dashboard.help_visible,
                                                dashboard.active_simulation)]
    /\ UNCHANGED <<given, data, sim, self_df, engine>>

\* lines 194-201, 275-281 and 298-305: the names of the checked checkboxes,
\* when the checkboxes are visible and there are any
SelectedTags(tag_checkboxes) ==
    IF tag_checkboxes.visible /\ tag_checkboxes.names # {}
    THEN tag_checkboxes.checked
    ELSE {}

\* lines 216-220: the tags of the file's table
AllTags(df) ==
    UNION {RowTags(df.tags[i]) :
              i \in {j \in DOMAIN df.tags :
                         ~df.tags[j].nan /\ Strip(df.tags[j].chars) # <<>>}}

\* handle_file_selection(event), file_selector.value having changed to
\* filename.  The file selector is on the Data Source page.
HandleFileSelection(filename) ==
    /\ pc = "idle"
    /\ dashboard.main_content = "Data Source"
    /\ filename # dashboard.file_selector
    /\ LET selected_tags == SelectedTags(dashboard.tag_checkboxes)
           full_df == LoadAndCleanData(filename, selected_tags)
           all_tags == AllTags(ReadCsv(filename))
           currently_selected == SelectedTags(dashboard.tag_checkboxes)
       IN  dashboard' =
               [dashboard EXCEPT
                   !.file_selector = filename,
                   !.data_preview_pane = full_df,
                   !.tag_checkboxes =
                       IF "Error" \notin full_df.columns /\ "tags" \in full_df.columns
                          /\ all_tags # {}
                       THEN [visible |-> TRUE, names |-> all_tags,
                             checked |-> all_tags \cap currently_selected]
                       ELSE [@ EXCEPT !.visible = FALSE]]
    /\ UNCHANGED <<given, data, sim, self_df, engine>>

\* handle_tag_selection(event), the checkbox of `tag` having been clicked.
HandleTagSelection(tag) ==
    /\ pc = "idle"
    /\ dashboard.main_content = "Data Source"
    /\ dashboard.tag_checkboxes.visible
    /\ tag \in dashboard.tag_checkboxes.names
    /\ LET boxes == [dashboard.tag_checkboxes EXCEPT
                        !.checked = IF tag \in @ THEN @ \ {tag} ELSE @ \cup {tag}]
           filtered_df == LoadAndCleanData(dashboard.file_selector, SelectedTags(boxes))
       IN  dashboard' = [dashboard EXCEPT !.tag_checkboxes = boxes,
                                          !.data_preview_pane = filtered_df]
    /\ UNCHANGED <<given, data, sim, self_df, engine>>

\* lines 57-83 and 115-145 of src/src/monte_carlo.py, as the dashboard sees
\* them: the forecast returns no percentiles for a table without the
\* cycle-time column or without rows.  The cleaned values are positive, so the
\* trials of a table with rows end.
CannotForecastWithoutColumnOnly(df) == df.is_none \/ "cycle_time_days" \notin df.columns

CannotForecast(df) ==
    df.is_none \/ "cycle_time_days" \notin df.columns \/ Len(df.cycle_time_days) = 0

\* get_work_items_results(num_cards, selected_file), lines 481-488, with the
\* update_work_items_results(num_cards) it returns, lines 403-437.  accepts_df: the
\* imported forecast_days_for_work_items takes df=, as the function of
\* src/src/monte_carlo.py does, or it is the one of src/monte_carlo.py, which
\* raises TypeError for it.  tabulate: the package DataFrame.to_markdown
\* needs is installed.
GetWorkItemsResults(num_cards, accepts_df, tabulate) ==
    /\ pc = "idle"
    /\ dashboard.main_content = "When will it be done?"
    /\ call' = [NoCall EXCEPT !.fn = "update_work_items_results",
                              !.via = "pane",
                              !.df = dashboard.data_preview_pane,
                              !.num_work_items = num_cards,
                              !.num_iterations = 5000]
    /\ Return([NoResult EXCEPT
                  !.status = "returned",
                  !.fn = "update_work_items_results",
                  !.error = IF ~accepts_df THEN "TypeError"
                            ELSE IF CannotForecast(dashboard.data_preview_pane) THEN ""
                            ELSE IF ~tabulate THEN "ImportError"
                            ELSE "",
                  !.markdown = IF ~accepts_df THEN "## Error"
                               ELSE IF CannotForecast(dashboard.data_preview_pane)
                               THEN "## Warning"
                               ELSE IF ~tabulate THEN "## Error"
                               ELSE "## Monte Carlo Simulation Results"])
    /\ UNCHANGED object

\* get_period_results(start_date, end_date, selected_file), lines 491-499,
\* with the update_period_results(start_date, end_date) it returns, lines
\* 441-477, for the dates of the two date pickers.
GetPeriodResults(start_date, end_date, accepts_df) ==
    /\ pc = "idle"
    /\ dashboard.main_content = "How many items?"
    /\ call' = [NoCall EXCEPT !.fn = "update_period_results",
                              !.via = "pane",
                              !.df = dashboard.data_preview_pane,
                              !.start_date = start_date,
                              !.end_date = end_date,
                              !.num_iterations = 5000]
    /\ Return([NoResult EXCEPT
                  !.status = "returned",
                  !.fn = "update_period_results",
                  !.error = IF ~accepts_df THEN "TypeError" ELSE "",
                  !.markdown = IF ~accepts_df THEN "## Error"
                               ELSE IF CannotForecast(dashboard.data_preview_pane)
                               THEN "## Warning"
                               ELSE "## Monte Carlo Simulation Results"])
    /\ UNCHANGED object

Init ==
    /\ given = DataNone
    /\ data = DataNone
    /\ sim = "unbuilt"
    /\ self_df = NoneFrame
    /\ pc = "idle"
    /\ call = NoCall
    /\ total = <<>>
    /\ walk = <<>>
    /\ simulated_totals = <<>>
    /\ simulated_cycle_times = <<>>
    /\ totals = <<>>
    /\ n = 0
    /\ spin = 0
    /\ result = NoResult
    /\ dashboard = InitialDashboard

\* --------------------------------------------------------- specifications
SimCalls ==
    /\ sim = "built"
    /\ pc = "idle"
    /\ \/ \E nw \in ItemCounts, ni \in IterationCounts : SimForecastDays(nw, ni)
       \/ \E sd \in PeriodDates, ed \in PeriodDates, ni \in IterationCounts :
              SimForecastPeriod(sd, ed, ni)
       \/ SimGetDataStatistics

FnCalls ==
    /\ sim = "unbuilt"
    /\ \/ \E df \in GuardFrames, nw \in 1..MaxItems, ni \in 1..MaxIter :
              FnForecastDays(df, nw, ni)
       \/ \E df \in GuardFrames, ni \in 1..MaxIter,
             sd \in {d \in PeriodDates : d.k = "str" /\ d.s # ""},
             ed \in {d \in PeriodDates : d.k = "str" /\ d.s # ""} :
              FnForecastPeriod(df, sd, ed, ni)
       \/ \E df \in StatsFrames : FnGetDataStatistics(df)
       \/ \E df \in {fr \in DirectFrames(1, 1) : fr.cycle_time_days[1] > 0},
             nc \in 1..MaxItems, sd \in StartDates :
              UpdateWorkItemsResults(df, nc, sd)

Steps ==
    \/ BeginTrialDays
    \/ \E i \in 1..MaxRows : DrawDays(i)
    \/ EndTrialDays
    \/ ReturnDays
    \/ BeginTrialPeriod
    \/ \E i \in 1..MaxRows : ContinuePeriod(i)
    \/ \E i \in 1..MaxRows : BreakPeriod(i)
    \/ ReturnPeriod

Next == ConstructForEngine \/ SimCalls \/ FnCalls \/ Steps

Spec == Init /\ [][Next]_vars

\* One iteration of simulate_days' while loop with the i-th element drawn.
PeriodDraw(i) == ContinuePeriod(i) \/ BreakPeriod(i)

\* The forecasts run without being preempted: a running forecast takes its
\* next step; and random.choice, drawing each element with positive
\* probability, draws every element of the sample again and again in a loop
\* that goes on drawing.
LiveSpec ==
    /\ Spec
    /\ WF_vars(Steps)
    /\ \A i \in 1..MaxRows : SF_vars(PeriodDraw(i))

NextPrepare == ConstructAny

SpecPrepare == Init /\ [][NextPrepare]_vars

\* The preparation of a throughput text and the statistics reports, without
\* a simulator.  The functions keep nothing from one call to the next: a
\* run takes one input, and describes the sample it was parsed to.
ParseAny == call.fn = "" /\ \E text \in ThroughputTexts : ParseThroughput(text)

DescribeAny ==
    /\ call.fn = ""
    /\ \E df \in StatsFrames \cup DirectFrames(1, MaxRows) : FnGetDataStatistics(df)

BusinessDayAny == call.fn = "" /\ \E now \in Nows : NextBusinessDay(now)

CleanAny ==
    /\ call.fn = ""
    /\ \E df \in FilterFrames, selected_tags \in SUBSET {<<"a">>, <<"b">>} :
           CleanAndFilter(df, selected_tags)

NextDescribe ==
    ParseAny \/ GetThroughputStatistics \/ DescribeAny \/ BusinessDayAny \/ CleanAny

SpecDescribe == Init /\ [][NextDescribe]_vars

\* The forecasts of a throughput sample, without a simulator: a run makes
\* one forecast.
ThroughputCalls ==
    /\ call.fn = ""
    /\ \/ \E df \in ThroughputFrames, nw \in 1..MaxItems, ni \in 1..MaxIter :
              ThroughputForecastDays(df, nw, ni)
       \/ \E df \in ThroughputFrames, sd \in ThroughputStarts,
             ed \in ThroughputEnds, ni \in 1..MaxIter :
              ThroughputForecastPeriod(df, sd, ed, ni)

ThroughputSteps ==
    \/ BeginTrialWeeks
    \/ \E i \in 1..MaxRows : DrawWeek(i)
    \/ EndTrialWeeks
    \/ ReturnThroughputDays
    \/ BeginTrialItems
    \/ \E i \in 1..MaxRows : DrawItems(i)
    \/ EndTrialItems
    \/ ReturnThroughputPeriod

NextThroughput == ThroughputCalls \/ ThroughputSteps

SpecThroughput == Init /\ [][NextThroughput]_vars

\* The dashboard: the buttons, the help toggle, the file selector, the tag
\* checkboxes and the two result panes.
NextDashboard ==
    \/ \E label \in {"Data Source", "When will it be done?", "How many items?"} :
           SetActive(label)
    \/ ToggleHelp
    \/ \E filename \in CsvFiles : HandleFileSelection(filename)
    \/ \E tag \in {<<"a">>, <<"b">>, <<"c">>} : HandleTagSelection(tag)
    \/ \E num_cards \in {3, 10}, accepts_df \in BOOLEAN, tabulate \in BOOLEAN :
           GetWorkItemsResults(num_cards, accepts_df, tabulate)
    \/ \E start_date \in {Str("2024-01-01"), Str("2024-01-03")},
          end_date \in {Str("2024-01-01"), Str("2024-01-03")},
          accepts_df \in BOOLEAN :
           GetPeriodResults(start_date, end_date, accepts_df)

SpecDashboard == Init /\ [][NextDashboard]_vars

\* The two trial loops on one draw sequence: a run makes one pair of trials.
\* The draws are MaxWalk values of a sample whose values are >= 1; they
\* suffice: cumulative_sum takes total_work_items of them, the period's
\* trial at most max_days + 1.
NextTrials ==
    /\ call.fn = ""
    /\ \E draws \in [1..MaxWalk -> CycleValues \ {0}], total_work_items \in 0..MaxWalk,
          max_days \in -1..(MaxWalk - 1) :
           TrialsOnDraws(draws, total_work_items, max_days)

SpecTrials == Init /\ [][NextTrials]_vars

\* ------------------------------------------------------------- properties
Sample == call.df.cycle_time_days

HasSample(df) ==
    ~df.is_none /\ "cycle_time_days" \in df.columns /\ Len(df.cycle_time_days) > 0

\* The totals that k draws with replacement from the values can add up to.
RECURSIVE SumsOf(_, _)
SumsOf(values, k) ==
    IF k = 0 THEN {0} ELSE {v + t : v \in values, t \in SumsOf(values, k - 1)}

DaysReturned == pc = "idle" /\ call.fn = "days" /\ result.status = "returned"

PeriodReturned == pc = "idle" /\ call.fn = "period" /\ result.status = "returned"

\* C1: forecast days for N items on a non-empty sample, N > 0 and
\* iterations > 0: the returned outcome list has exactly `iterations`
\* entries, and each entry is the sum of exactly N values of the sample;
\* every trial's running total starts from 0.
C1_DaysOutcomes ==
    /\ pc = "cumulative_sum" =>
           /\ total[1] = 0
           /\ Len(total) <= call.num_work_items + 1
           /\ Last(total) \in SumsOf(Range(Sample), Len(total) - 1)
    /\ pc \in {"days_for", "cumulative_sum"} =>
           /\ Len(simulated_totals) <= call.num_iterations
           /\ \A k \in DOMAIN simulated_totals :
                  simulated_totals[k] \in SumsOf(Range(Sample), call.num_work_items)
    /\ (DaysReturned /\ HasSample(call.df)) =>
           /\ Len(result.outcomes) = call.num_iterations
           /\ \A k \in DOMAIN result.outcomes :
                  result.outcomes[k] \in SumsOf(Range(Sample), call.num_work_items)

C1_Witness ==
    /\ DaysReturned
    /\ call.num_work_items = 2
    /\ Len(result.outcomes) = 2
    /\ result.outcomes[1] # result.outcomes[2]
    /\ result.outcomes[2] > 0

\* C2: forecast items in [start, end] on a duration sample: a trial's item
\* count k is the number of draws accumulated before the running total first
\* exceeds max_days: the sum of the first k draws is <= max_days and adding
\* the next draw gives a total > max_days, that draw being discarded; when
\* every sample value exceeds max_days every trial reports 0.  (Stated of
\* the trials whose walk stays within MaxWalk elements.)
C2_PeriodItemCount ==
    /\ (pc = "period_for" /\ totals # <<>> /\ spin = 0) =>
           LET k == Last(totals)
           IN  /\ k = Len(simulated_cycle_times) - 1
               /\ simulated_cycle_times[1] = 0
               /\ \A j \in 1..k :
                      /\ simulated_cycle_times[j + 1] - simulated_cycle_times[j]
                             \in Range(Sample)
                      /\ simulated_cycle_times[j + 1] <= call.max_days
               /\ n - simulated_cycle_times[k + 1] \in Range(Sample)
               /\ n > call.max_days
    /\ (PeriodReturned /\ HasSample(call.df)
          /\ \A v \in Range(Sample) : v > call.max_days) =>
           /\ Len(result.outcomes) = call.num_iterations
           /\ \A k \in DOMAIN result.outcomes : result.outcomes[k] = 0

C2_Witness ==
    /\ pc = "period_for"
    /\ spin = 0
    /\ totals # <<>>
    /\ Last(totals) = 2
    /\ Last(simulated_cycle_times) = call.max_days
    /\ Cardinality(Range(Sample)) = 2

\* The calendar day of an instant as written, and whether it is a date at all.
IsDateString(c) == c.k = "str" /\ c.s # "not-a-date" /\ c.s # ""

CalendarDay(c) ==
    CASE c.s \in {"2024-01-01", "2024-01-01T18:30:00"} -> 1
      [] c.s = "2024-01-02T06:00:00" -> 2
      [] c.s = "2024-01-03" -> 3
      [] c.s = "2024-01-10" -> 10
      [] OTHER -> 0

\* The constructor was given a table with both date columns and accepted it.
BuiltFromDates ==
    sim = "built" /\ data.type \in {"str", "DataFrame"} /\ HasDates(data.frame)

\* C3: for every row whose start and end instants both parse, the derived
\* cycle time is max(1, D + 1), D the difference in whole calendar days
\* between the end date and the start date, the time of day ignored.
C3_CycleTimeDerivation ==
    BuiltFromDates =>
        \A i \in 1..data.frame.nrows :
            LET sd == data.frame.start_date[i]
                ed == data.frame.end_date[i]
            IN  (IsDateString(sd) /\ IsDateString(ed)) =>
                    self_df.cycle_time_days[i] =
                        Max(1, CalendarDay(ed) - CalendarDay(sd) + 1)

\* An evening start and a start of the next morning: one calendar day apart,
\* less than 24 hours; and a row whose end is before its start.
C3_Witness ==
    /\ BuiltFromDates
    /\ data.frame.nrows = 2
    /\ data.frame.start_date[1] = Str("2024-01-01T18:30:00")
    /\ data.frame.end_date[1] = Str("2024-01-02T06:00:00")
    /\ self_df.cycle_time_days[1] = 2
    /\ data.frame.start_date[2] = Str("2024-01-10")
    /\ data.frame.end_date[2] = Str("2024-01-01")
    /\ self_df.cycle_time_days[2] = 1

\* C4: a table with both date columns in which some instant fails to parse
\* raises no error and loses no row: every such row gets cycle time 1, and
\* the sample has the rows of the input, in the input's order.
C4_LenientFallback ==
    (sim # "unbuilt" /\ data.type \in {"str", "DataFrame"} /\ data.file \in {"", "csv"}
       /\ HasDates(data.frame) /\ ~IsEmpty(data.frame)) =>
        /\ sim = "built"
        /\ self_df.nrows = data.frame.nrows
        /\ Len(self_df.cycle_time_days) = data.frame.nrows
        /\ Len(self_df.start_date) = data.frame.nrows
        /\ \A i \in 1..data.frame.nrows :
               LET sd == data.frame.start_date[i]
                   ed == data.frame.end_date[i]
               IN  /\ (~IsDateString(sd) \/ ~IsDateString(ed)) =>
                          self_df.cycle_time_days[i] = 1
                   /\ IsDateString(sd) =>
                          self_df.start_date[i].day = CalendarDay(sd)
                   /\ IsDateString(ed) =>
                          self_df.end_date[i].day = CalendarDay(ed)
                   /\ IsDateString(sd) <=> notnull(self_df.start_date[i])
                   /\ IsDateString(ed) <=> notnull(self_df.end_date[i])

C4_Witness ==
    /\ BuiltFromDates
    /\ data.frame.nrows = 2
    /\ data.frame.start_date[1] = Str("not-a-date")
    /\ data.frame.end_date[1] = Str("2024-01-10")
    /\ data.frame.start_date[2] = Str("2024-01-01")
    /\ data.frame.end_date[2] = Str("2024-01-10")
    /\ self_df.cycle_time_days = <<1, 10>>

\* The frame is no sample: absent, without the cycle-time column, or empty.
Degenerate(df) ==
    df.is_none \/ "cycle_time_days" \notin df.columns \/ Len(df.cycle_time_days) = 0

ValidDaysRequest == call.num_work_items > 0 /\ call.num_iterations > 0

ValidPeriodRequest ==
    /\ call.num_iterations > 0
    /\ IsDateString(call.start_date)
    /\ IsDateString(call.end_date)

\* The call got to the module-level forecast function: it was called
\* directly, or the simulator's method let the request through.
ReachedDays == call.fn = "days" /\ (call.via = "function" \/ ValidDaysRequest)

ReachedPeriod == call.fn = "period" /\ (call.via = "function" \/ ValidPeriodRequest)

EmptyDays ==
    /\ pc = "idle"
    /\ result.status = "returned"
    /\ result.outcomes = <<>>
    /\ result.percentiles = <<>>
    /\ result.percentile_dates = <<>>
    /\ result.num_work_items = call.num_work_items
    /\ result.num_iterations = call.num_iterations

EmptyPeriod ==
    /\ pc = "idle"
    /\ result.status = "returned"
    /\ result.outcomes = <<>>
    /\ result.percentiles = <<>>
    /\ result.num_iterations = call.num_iterations

C7_DatasetValidation ==
    /\ (/\ sim # "unbuilt"
        /\ \/ data.type \in {"None", "other"}
           \/ (data.type = "str" /\ IsBlank(data.path))
           \/ (data.type = "DataFrame" /\ IsEmpty(data.frame))
           \/ (/\ data.type \in {"str", "DataFrame"}
               /\ ~HasDates(data.frame)
               /\ "cycle_time_days" \notin data.frame.columns)) => sim = "raised"
    /\ sim = "built" =>
           /\ ~IsEmpty(self_df)
           /\ "cycle_time_days" \in self_df.columns
           /\ Len(self_df.cycle_time_days) > 0

\* C8: every value of a sample the forecasts draw from is an integer >= 1.
C8_SampleValuesAtLeastOne ==
    pc \in {"cumulative_sum", "while"} => \A v \in Range(Sample) : v >= 1

\* C9: a forecast that was started on a non-empty sample returns: every
\* trial's loop stops.
C9_ForecastTerminates == (pc # "idle") ~> (pc = "idle")

\* C10: the percentile values the forecast of days returns are non-decreasing
\* in percentile order: value(70) <= value(80) <= value(90) <= value(95) <=
\* value(98).
C10_PercentilesMonotone ==
    (DaysReturned /\ HasSample(call.df)) =>
        /\ Len(result.percentiles) = Len(PERCENTILES)
        /\ \A i \in 1..(Len(result.percentiles) - 1) :
               result.percentiles[i].value <= result.percentiles[i + 1].value

\* Two trials with different totals: the five values differ.
C10_Witness ==
    /\ DaysReturned
    /\ Len(result.outcomes) = 2
    /\ result.outcomes[1] > result.outcomes[2]
    /\ \A i \in 1..4 : result.percentiles[i].value < result.percentiles[i + 1].value

\* C11: if every element of the sample equals the same value c, the forecast
\* of days for N items yields exactly N * c in every trial, and all five
\* percentiles equal N * c, whatever elements are drawn; the sample [7] with
\* N = 1 and one iteration returns exactly 7.
C11_ConstantSample ==
    /\ (pc = "days_for" /\ \A i, j \in DOMAIN Sample : Sample[i] = Sample[j]) =>
           \A k \in DOMAIN simulated_totals :
               simulated_totals[k] = call.num_work_items * Sample[1]
    /\ (DaysReturned /\ HasSample(call.df)
          /\ \A i, j \in DOMAIN Sample : Sample[i] = Sample[j]) =>
           /\ Len(result.outcomes) = call.num_iterations
           /\ \A k \in DOMAIN result.outcomes :
                  result.outcomes[k] = call.num_work_items * Sample[1]
           /\ Len(result.percentiles) = 5
           /\ \A i \in DOMAIN result.percentiles :
                  result.percentiles[i].value = 100 * call.num_work_items * Sample[1]
    /\ (DaysReturned /\ Sample = <<7>>
          /\ call.num_work_items = 1 /\ call.num_iterations = 1) =>
           /\ result.outcomes = <<7>>
           /\ \A i \in DOMAIN result.percentiles : result.percentiles[i].value = 700

\* Two rows with the same value, two items, two trials: whichever row a draw
\* takes, the total is 4.
C11_Witness ==
    /\ DaysReturned
    /\ Sample = <<2, 2>>
    /\ call.num_work_items = 2
    /\ result.outcomes = <<4, 4>>
    /\ \A i \in DOMAIN PERCENTILES : result.percentiles[i].value = 400

\* The keys of a percentile map.
Keys(m) == {m[i].key : i \in DOMAIN m}

\* C12: the percentile set is fixed: a forecast of days or of a period that
\* runs on a non-empty sample returns a percentile map with exactly the five
\* keys 70, 80, 90, 95 and 98, one entry each, and the forecast of days
\* returns projected dates for exactly the same keys.
C12_PercentileSetFixed ==
    ((DaysReturned \/ PeriodReturned) /\ HasSample(call.df)) =>
        /\ Keys(result.percentiles) = {"70", "80", "90", "95", "98"}
        /\ Len(result.percentiles) = 5
        /\ call.fn = "days" =>
               /\ Keys(result.percentile_dates) = Keys(result.percentiles)
               /\ Len(result.percentile_dates) = 5

\* A simulator's forecast of a period returned its five percentiles.
C12_Witness ==
    /\ PeriodReturned
    /\ call.via = "method"
    /\ HasSample(call.df)
    /\ Len(result.outcomes) = 2
    /\ Keys(result.percentiles) = {"70", "80", "90", "95", "98"}

\* The k-th smallest of the values of s, counted with repetitions.
KthSmallest(s, k) ==
    CHOOSE v \in Range(s) :
        /\ Cardinality({i \in DOMAIN s : s[i] < v}) < k
        /\ Cardinality({i \in DOMAIN s : s[i] <= v}) >= k

\* The linear-interpolation quantile of the outcomes at p percent, in
\* hundredths: the rank is r = (p / 100) * (n - 1), 100 * r = rank100.
LinearQuantile(outcomes, p) ==
    LET rank100 == p * (Len(outcomes) - 1)
        floor == rank100 \div 100
        ceil == (rank100 + 99) \div 100
        below == KthSmallest(outcomes, floor + 1)
        above == KthSmallest(outcomes, ceil + 1)
    IN  100 * below + (rank100 - 100 * floor) * (above - below)

\* C13: each percentile value is the linear-interpolation quantile of the n
\* trial outcomes: with the outcomes sorted ascending and r = (p/100)(n - 1),
\* it is sorted[floor(r)] + (r - floor(r)) * (sorted[ceil(r)] - sorted[floor(r)]),
\* for every p of the percentile set, in both forecasts.
C13_LinearInterpolation ==
    ((DaysReturned \/ PeriodReturned) /\ result.outcomes # <<>>) =>
        \A i \in DOMAIN PERCENTILES :
            result.percentiles[i].value = LinearQuantile(result.outcomes, PERCENTILES[i])

\* Two trials of a period forecast that count 0 and 2 items, in the order
\* that is not ascending: the 70th percentile is 1.4 items.
C13_Witness ==
    /\ PeriodReturned
    /\ result.outcomes = <<2, 0>>
    /\ result.percentiles[1].value = 140
    /\ result.percentiles[5].value = 196

\* C14: samples are never mutated: after any sequence of forecasts of days,
\* forecasts of a period and statistics calls on a simulator, whether they
\* return or raise, the simulator's table holds the rows and values it held
\* right after construction; and the table the caller handed over to be
\* prepared is, afterwards, the table it was.
C14_SamplesNeverMutated ==
    /\ [](sim # "unbuilt" => data = given)
    /\ [][sim = "built" => (self_df' = self_df /\ data' = data)]_vars

\* A simulator built from a caller's table of date pairs has made a forecast:
\* its table has the parsed dates and the cycle time, the caller's table
\* still has the two strings and no cycle-time column.
C14_Witness ==
    /\ sim = "built"
    /\ data.type = "DataFrame"
    /\ data.frame.columns = {"start_date", "end_date"}
    /\ data.frame.start_date = <<Str("2024-01-01")>>
    /\ data.frame.end_date = <<Str("2024-01-02T06:00:00")>>
    /\ self_df.cycle_time_days = <<2>>
    /\ PeriodReturned
    /\ result.outcomes = <<1, 1>>

\* The statistics were reported on a table that is a sample.
StatsReported ==
    /\ pc = "idle"
    /\ call.fn = "stats"
    /\ ~call.df.is_none
    /\ call.df.nrows > 0
    /\ "cycle_time_days" \in call.df.columns

\* C18: the statistics report never raises for degenerate input: for a
\* table that is absent (None), empty, or without the cycle-time column it
\* returns count 0, min 0, max 0, median 0 and the error marker
\* "No valid data available".
C18_DegenerateReport ==
    (pc = "idle" /\ call.fn = "stats"
       /\ \/ call.df.is_none
          \/ call.df.nrows = 0
          \/ call.df.columns = {}
          \/ "cycle_time_days" \notin call.df.columns) =>
        /\ result.status = "returned"
        /\ result.total_items = 0
        /\ result.min_cycle_time = 0
        /\ result.max_cycle_time = 0
        /\ result.median_cycle_time = 0
        /\ result.error = "No valid data available"

\* The report on a table that has the cycle-time column and no rows.
C18_Witness ==
    /\ pc = "idle"
    /\ call.fn = "stats"
    /\ call.df.columns = {"cycle_time_days"}
    /\ call.df.nrows = 0
    /\ result.error = "No valid data available"

\* C15: the forecast of days maps each percentile to a projected completion
\* date: the reference start plus the percentile value in days, the
\* reference start being the one the caller supplies when one is given, and
\* today only when none is given.
C15_ProjectedDates ==
    (pc = "idle" /\ call.fn = "days" /\ HasSample(call.df) /\ ValidDaysRequest) =>
        LET reference == IF notnull(call.reference_start)
                         THEN call.reference_start
                         ELSE CHOOSE today \in Todays : TRUE
        IN  /\ result.status = "returned"
            /\ Len(result.percentile_dates) = Len(PERCENTILES)
            /\ \A i \in DOMAIN result.percentile_dates :
                   result.percentile_dates[i].value =
                       (100 * reference.day + result.percentiles[i].value) \div 100

\* C16: direct cycle-time mode: when the table handed to be prepared already
\* has a cycle-time column, the preparation uses that column as it is, so
\* the values the engine samples from are exactly the values supplied, for
\* every such table, one that also has start and end date columns included.
\* (Stated of the tables whose supplied cycle times are all at least 1.)
C16_DirectCycleTimeAsIs ==
    (sim # "unbuilt" /\ given.type = "DataFrame" /\ ~IsEmpty(given.frame)
       /\ "cycle_time_days" \in given.frame.columns
       /\ \A i \in DOMAIN given.frame.cycle_time_days :
              given.frame.cycle_time_days[i] >= 1) =>
        /\ sim = "built"
        /\ self_df.cycle_time_days = given.frame.cycle_time_days

\* C17: the statistics report over a valid non-empty sample gives the number
\* of observations, the minimum, the maximum and the median of the sample
\* (and, for a throughput sample, the mean), its error field empty;
\* [2, 4, 6, 8, 10] gives count 5, min 2, max 10, median 6.  (The median
\* and the mean are in hundredths, the mean rounded down.)
C17_StatisticsReport ==
    /\ StatsReported =>
           LET s == call.df.cycle_time_days
               count == Len(s)
           IN  /\ result.status = "returned"
               /\ result.error = ""
               /\ result.total_items = count
               /\ result.min_cycle_time \in Range(s)
               /\ \A v \in Range(s) : result.min_cycle_time <= v
               /\ result.max_cycle_time \in Range(s)
               /\ \A v \in Range(s) : result.max_cycle_time >= v
               /\ result.median_cycle_time =
                      50 * (KthSmallest(s, (count + 1) \div 2)
                            + KthSmallest(s, count \div 2 + 1))
    /\ (pc = "idle" /\ call.fn = "stats"
          /\ ~call.df.is_none /\ call.df.cycle_time_days = <<2, 4, 6, 8, 10>>) =>
           /\ result.total_items = 5
           /\ result.min_cycle_time = 2
           /\ result.max_cycle_time = 10
           /\ result.median_cycle_time = 600
           /\ result.error = ""
    /\ (pc = "idle" /\ call.fn = "throughput_stats" /\ result.throughput # <<>>) =>
           LET s == result.throughput
               count == Len(s)
           IN  /\ result.status = "returned"
               /\ result.error = ""
               /\ result.total_weeks = count
               /\ result.min_throughput \in Range(s)
               /\ \A v \in Range(s) : result.min_throughput <= v
               /\ result.max_throughput \in Range(s)
               /\ \A v \in Range(s) : result.max_throughput >= v
               /\ result.median_throughput =
                      50 * (KthSmallest(s, (count + 1) \div 2)
                            + KthSmallest(s, count \div 2 + 1))
               /\ result.avg_throughput * count <= 100 * SumOf(s)
               /\ 100 * SumOf(s) < (result.avg_throughput + 1) * count
    /\ (pc = "idle" /\ call.fn = "throughput_stats"
          /\ result.throughput = <<2, 4, 6, 8, 10>>) =>
           /\ result.total_weeks = 5
           /\ result.min_throughput = 2
           /\ result.max_throughput = 10
           /\ result.median_throughput = 600
           /\ result.avg_throughput = 600

\* The report on the cycle times [2, 4, 6, 8, 10].
C17_Witness ==
    /\ StatsReported
    /\ call.df.cycle_time_days = <<2, 4, 6, 8, 10>>
    /\ result.total_items = 5
    /\ result.median_cycle_time = 600

\* The places of the commas of a text, and the place of the k-th of them (0
\* before the first, one past the end after the last).
CommasOf(s) == {i \in DOMAIN s : s[i] = ","}

CommaAt(s, k) ==
    IF k = 0 THEN 0
    ELSE IF k > Cardinality(CommasOf(s)) THEN Len(s) + 1
    ELSE CHOOSE i \in CommasOf(s) : Cardinality({j \in CommasOf(s) : j <= i}) = k

\* The k-th comma-separated field of a text.
Field(s, k) == SubSeq(s, CommaAt(s, k - 1) + 1, CommaAt(s, k) - 1)

\* The places of a field that hold no whitespace, and the field from the
\* first of them to the last.
Solid(f) == {i \in DOMAIN f : f[i] # " "}

Core(f) ==
    SubSeq(f, CHOOSE i \in Solid(f) : \A j \in Solid(f) : i <= j,
              CHOOSE i \in Solid(f) : \A j \in Solid(f) : i >= j)

\* The fields that are not blank, and the j-th of them.
KeptFields(s) == {k \in 1..(Cardinality(CommasOf(s)) + 1) : Solid(Field(s, k)) # {}}

Kept(s, j) ==
    Core(Field(s, CHOOSE k \in KeptFields(s) :
                      Cardinality({m \in KeptFields(s) : m <= k}) = j))

Digits == {"0", "1", "2", "3", "4", "5", "6", "7", "8", "9"}

\* A token is a number: digits, after an optional minus sign; and its value.
IsNumber(tok) ==
    /\ \E i \in DOMAIN tok : tok[i] \in Digits
    /\ \A i \in DOMAIN tok : tok[i] \in Digits \/ (i = 1 /\ tok[i] = "-")

DecimalValue(tok) ==
    LET horner[i \in 0..Len(tok)] ==
            IF i = 0 THEN 0
            ELSE IF tok[i] = "-" THEN 0
            ELSE 10 * horner[i - 1]
                 + (CHOOSE d \in 0..9 : DigitValue(tok[i]) = d)
    IN  IF tok[1] = "-" THEN -horner[Len(tok)] ELSE horner[Len(tok)]

ParseReturned == pc = "idle" /\ call.fn = "parse" /\ result.status = "returned"

\* C19: throughput-text parsing: for every input that passes validation the
\* sample is the sequence, in input order, of the numeric values of the
\* comma-separated tokens after trimming whitespace and dropping empty
\* tokens; zero values are kept. "2, 3, 5, 2" gives [2, 3, 5, 2] and "2,,3"
\* gives [2, 3].
C19_ThroughputParsing ==
    /\ (ParseReturned /\ call.text.kind = "chars") =>
           LET s == call.text.chars
               count == Cardinality(KeptFields(s))
           IN  /\ Len(result.throughput) = count
               /\ \A j \in 1..count :
                      result.throughput[j] = DecimalValue(Kept(s, j))
    /\ (ParseReturned /\ call.text.kind = "join") =>
           result.throughput = [i \in 1..call.text.count |-> 1]
    /\ (pc = "idle" /\ call.fn = "parse") =>
           /\ call.text.chars = <<"2", ",", " ", "3", ",", " ", "5", ",", " ", "2">> =>
                  result.status = "returned" /\ result.throughput = <<2, 3, 5, 2>>
           /\ call.text.chars = <<"2", ",", ",", "3">> =>
                  result.status = "returned" /\ result.throughput = <<2, 3>>
           /\ call.text.chars = <<"2", ",", "0", ",", "3", ",", "0">> =>
                  result.status = "returned" /\ result.throughput = <<2, 0, 3, 0>>
           /\ call.text.chars =
                  <<" ", " ", "2", ",", "3", ",", "5", ",", "2", " ", " ">> =>
                  result.status = "returned" /\ result.throughput = <<2, 3, 5, 2>>

\* "2, 3, 5, 2" is parsed.
C19_Witness ==
    /\ ParseReturned
    /\ call.text.chars = <<"2", ",", " ", "3", ",", " ", "5", ",", " ", "2">>
    /\ result.throughput = <<2, 3, 5, 2>>

\* The text has to be refused.
ShouldFail(text) ==
    IF text.kind = "join" THEN text.count > 1000
    ELSE LET s == text.chars
             count == Cardinality(KeptFields(s))
         IN  \/ Solid(s) = {}
             \/ \E j \in 1..count : ~IsNumber(Kept(s, j))
             \/ \E j \in 1..count :
                    IsNumber(Kept(s, j)) /\ DecimalValue(Kept(s, j)) < 0
             \/ count > 1000

\* C20: throughput-text parsing fails with an input error, and returns no
\* sample, exactly when the trimmed input is empty, some remaining token is
\* non-numeric, some value is negative, or the number of remaining tokens
\* exceeds 1000; exactly 1000 valid values succeed and 1001 fail.
C20_ThroughputParsingFails ==
    (pc = "idle" /\ call.fn = "parse") =>
        /\ result.status \in {"returned", "raised"}
        /\ result.status = "raised" <=> ShouldFail(call.text)
        /\ result.status = "raised" =>
               result.error = "ValueError" /\ result.throughput = <<>>
        /\ (call.text.kind = "join" /\ call.text.count = 1000) =>
               result.status = "returned" /\ Len(result.throughput) = 1000
        /\ (call.text.kind = "join" /\ call.text.count = 1001) =>
               result.status = "raised"
        /\ call.text.chars = <<"2", ",", "3", ",", "-", "1">> =>
               result.status = "raised"

\* The text of 1001 values is refused.
C20_Witness ==
    /\ pc = "idle"
    /\ call.fn = "parse"
    /\ call.text.kind = "join"
    /\ call.text.count = 1001
    /\ result.status = "raised"

ThroughputDaysReturned ==
    pc = "idle" /\ call.fn = "throughput_days" /\ result.status = "returned"

ThroughputPeriodReturned ==
    pc = "idle" /\ call.fn = "throughput_period" /\ result.status = "returned"

HasPositive(tp) == \E i \in DOMAIN tp : tp[i] > 0

\* Some k weekly draws from the values reach the target at the k-th draw and
\* not before.
FirstReachedAt(values, target, k) ==
    \E d \in [1..k -> values] :
        /\ SumOf(d) >= target
        /\ SumOf(SubSeq(d, 1, k - 1)) < target

\* C21: Operation A' on a throughput sample with at least one positive value
\* and N > 0 returns `iterations` outcomes, each 7 times the number of weekly
\* draws at which the running total first reaches or exceeds N, so each a
\* positive multiple of 7, with non-empty percentile maps; and the outcome a
\* trial records is 7 times the number of draws it made, the running total
\* being below N before its last draw and at least N after it.
C21_ThroughputDays ==
    /\ [](ThroughputDaysReturned /\ HasPositive(call.df.throughput)
             /\ call.num_work_items > 0
          => /\ Len(result.outcomes) = call.num_iterations
             /\ \A j \in DOMAIN result.outcomes :
                    LET o == result.outcomes[j]
                    IN  /\ o > 0
                        /\ o % 7 = 0
                        /\ FirstReachedAt(Range(call.df.throughput),
                                          call.num_work_items, o \div 7)
             /\ Len(result.percentiles) > 0
             /\ Len(result.percentile_dates) > 0)
    /\ [][pc = "weeks_while" /\ pc' = "weeks_for"
          => /\ simulated_totals' = Append(simulated_totals, 7 * (Len(total) - 1))
             /\ Len(total) > 1
             /\ Last(total) >= call.num_work_items
             /\ total[Len(total) - 1] < call.num_work_items]_vars

\* A forecast of 2 items from the weekly counts 1 and 2 returned a trial of
\* one week and a trial of two weeks.
C21_Witness ==
    /\ ThroughputDaysReturned
    /\ call.df.throughput = <<1, 2>>
    /\ call.num_work_items = 2
    /\ result.outcomes = <<7, 14>>
    /\ Len(result.percentiles) = 5

\* total_weeks rounded up to whole weeks, total_weeks = total_days / 7
CeilWeeks(total_days) ==
    IF total_days >= 0 THEN (total_days + 6) \div 7 ELSE -((-total_days) \div 7)

\* C22: Operation B' on a throughput sample: each trial's result is the sum
\* of exactly ceil(total_weeks) weekly values of the sample, total_weeks being
\* the days of the period / 7, and a trial ends after that many draws with
\* the accumulated count; a period of zero length yields 0 items in every
\* trial and no draw is made; a sample of zeros yields 0 items in every trial.
C22_ThroughputPeriod ==
    /\ [](ThroughputPeriodReturned /\ ~NoThroughput(call.df)
          => /\ Len(result.outcomes) = call.num_iterations
             /\ \A j \in DOMAIN result.outcomes :
                    /\ result.outcomes[j] \in
                           SumsOf(Range(call.df.throughput), CeilWeeks(call.max_days))
                    /\ call.max_days = 0 => result.outcomes[j] = 0
                    /\ ~HasPositive(call.df.throughput) => result.outcomes[j] = 0)
    /\ [][pc = "items_while"
          => /\ pc' = "items_for"
                => /\ totals' = Append(totals, Last(total))
                   /\ Len(total) - 1 = CeilWeeks(call.max_days)
             /\ call.max_days = 0 => total' = total
             /\ Len(total') > Len(total)
                => /\ Len(total) - 1 < CeilWeeks(call.max_days)
                   /\ \E v \in Range(call.df.throughput) :
                          total' = Append(total, Last(total) + v)]_vars

\* A forecast for a period of 12 days, two weeks begun, returned the sum of
\* two draws in each trial.
C22_Witness ==
    /\ ThroughputPeriodReturned
    /\ call.df.throughput = <<1, 2>>
    /\ call.max_days = 12
    /\ result.outcomes = <<2, 3>>

BusinessDayReturned ==
    pc = "idle" /\ call.fn = "business_day" /\ result.status = "returned"

\* The Saturdays and Sundays of January 2024 (the 6th is a Saturday).
Saturdays == {6, 13, 20, 27}

Sundays == {7, 14, 21, 28}

\* C23: get_next_business_day returns, whatever the current day and time,
\* the earliest calendar day after today that is neither a Saturday nor a
\* Sunday: tomorrow when tomorrow is a weekday, the following Monday when
\* today is a Friday or a Saturday; and it is at most 3 days after today.
C23_NextBusinessDay ==
    BusinessDayReturned
    => LET today == call.start_ts.day
           next == result.next_day
       IN  /\ next.k = "ts"
           /\ next.hour = 0
           /\ next.day > today
           /\ next.day \notin Saturdays \cup Sundays
           /\ \A d \in (today + 1)..(next.day - 1) : d \in Saturdays \cup Sundays
           /\ (today + 1) \notin Saturdays \cup Sundays => next.day = today + 1
           /\ (today + 1) \in Saturdays => next.day = today + 3
           /\ today \in Saturdays => next.day = today + 2
           /\ next.day - today <= 3

\* Asked on Friday 2024-01-05 in the evening, the function returned Monday
\* 2024-01-08.
C23_Witness ==
    /\ BusinessDayReturned
    /\ call.start_ts = Ts(5, 18)
    /\ result.next_day = Ts(8, 0)

CleanReturned == pc = "idle" /\ call.fn = "clean" /\ result.status = "returned"

\* The cell holds no tag: it is missing or blank.
Untagged(cell) == cell.nan \/ Solid(cell.chars) = {}

\* The cell names the tag among its comma-separated fields.
Carries(cell, tag) ==
    \E k \in 1..(Cardinality(CommasOf(cell.chars)) + 1) :
        /\ Solid(Field(cell.chars, k)) # {}
        /\ Core(Field(cell.chars, k)) = tag

\* The rows of the table that the selection asks for.
Wanted(df, selected_tags) ==
    {i \in 1..df.nrows :
        /\ df.cycle_time_days[i] > 0
        /\ \/ selected_tags = {}
           \/ "tags" \notin df.columns
           \/ Untagged(df.tags[i])
           \/ \E tag \in selected_tags : Carries(df.tags[i], tag)}

\* C24: for a table with a cycle_time_days column, clean_and_filter_data
\* returns exactly the rows with cycle_time_days > 0 that, when the selection
\* is not empty and there is a tags column, carry no tag or one of the
\* selected tags; with no selection or no tags column, all rows with
\* cycle_time_days > 0; in their order, with their values and columns.
C24_TagFiltering ==
    CleanReturned /\ "cycle_time_days" \in call.df.columns
    => LET df == call.df
           out == result.df
           wanted == Wanted(df, call.selected_tags)
           place(j) == CHOOSE i \in wanted : Cardinality({m \in wanted : m <= i}) = j
       IN  /\ out.columns = df.columns
           /\ out.nrows = Cardinality(wanted)
           /\ Len(out.cycle_time_days) = out.nrows
           /\ \A j \in 1..out.nrows :
                  out.cycle_time_days[j] = df.cycle_time_days[place(j)]
           /\ "tags" \in df.columns
              => /\ Len(out.tags) = out.nrows
                 /\ \A j \in 1..out.nrows : out.tags[j] = df.tags[place(j)]

\* Of two rows with positive cycle times, one tagged a and one tagged "a, b",
\* the selection of b kept the second.
C24_Witness ==
    /\ CleanReturned
    /\ call.selected_tags = {<<"b">>}
    /\ call.df.nrows = 2
    /\ call.df.cycle_time_days = <<2, 2>>
    /\ call.df.tags = <<TagsCell(<<"a">>), TagsCell(<<"a", ",", " ", "b">>)>>
    /\ result.df.tags = <<TagsCell(<<"a", ",", " ", "b">>)>>

\* C25: a results handler of the dashboard never raises: it returns the
\* warning text exactly when the forecast came back without percentiles (the
\* previewed table has no cycle-time sample), the error text when the forecast
\* or the rendering raised, and the results otherwise.
ResultsHandlerReturned ==
    result.fn \in {"update_work_items_results", "update_period_results"}

C25_CallerNeverCrashes ==
    ResultsHandlerReturned =>
        /\ pc = "idle"
        /\ result.status = "returned"
        /\ result.markdown \in
               {"## Warning", "## Error", "## Monte Carlo Simulation Results"}
        /\ result.error # "" <=> result.markdown = "## Error"
        /\ result.error = "" =>
               (result.markdown = "## Warning" <=> ~HasSample(call.df))

\* The work-items pane showed the warning for data/late.csv, whose rows all
\* have a cycle time of 0 and are cleaned away.
C25_Witness ==
    /\ result.fn = "update_work_items_results"
    /\ dashboard.file_selector = "data/late.csv"
    /\ "cycle_time_days" \in call.df.columns
    /\ call.df.cycle_time_days = <<>>
    /\ result.markdown = "## Warning"
    /\ result.error = ""

\* C26: the dashboard starts on the Data Source page with help off; a click on
\* a page button leaves help off and shows that button's page; while help is
\* on the help text is shown, and while it is off the active page is shown; a
\* click on the help toggle leaves the active page as it was, so that turning
\* help off shows that page again.
Pages == {"Data Source", "When will it be done?", "How many items?"}

C26_PageNavigation ==
    /\ dashboard.active_simulation = "Data Source"
    /\ ~dashboard.help_visible
    /\ dashboard.main_content = "Data Source"
    /\ [](dashboard.active_simulation \in Pages)
    /\ [](dashboard.help_visible =>
              dashboard.main_content = "About Monte Carlo Simulation")
    /\ [](~dashboard.help_visible =>
              dashboard.main_content = dashboard.active_simulation)
    /\ [][\A label \in Pages :
              SetActive(label) =>
                  /\ ~dashboard'.help_visible
                  /\ dashboard'.active_simulation = label
                  /\ dashboard'.main_content = label]_vars
    /\ [][ToggleHelp =>
              /\ dashboard'.help_visible = ~dashboard.help_visible
              /\ dashboard'.active_simulation = dashboard.active_simulation
              /\ dashboard.help_visible =>
                     dashboard'.main_content = dashboard.active_simulation]_vars

\* Help was turned on over the How many items? page: the help text is shown
\* and the page is still the active one.
C26_Witness ==
    /\ dashboard.help_visible
    /\ dashboard.active_simulation = "How many items?"
    /\ dashboard.main_content = "About Monte Carlo Simulation"

\* C30: the table in the preview pane is the selected file's cleaned table
\* filtered by exactly the tags whose checkboxes are shown checked.
CheckedTags ==
    IF dashboard.tag_checkboxes.visible THEN dashboard.tag_checkboxes.checked ELSE {}

C30_PreviewMatchesCheckedTags ==
    dashboard.data_preview_pane =
        CleanAndFilterData(ReadCsv(dashboard.file_selector), CheckedTags)

\* C27: in a forecast of a period on a sample whose values are all >= 1, a
\* trial's walk never holds more than max(0, max_days) accepted draws, every
\* draw either extends the walk by one or ends the trial, so that a trial
\* makes at most max(0, max_days) + 1 draws, and every item count lies in
\* 0..max(0, max_days); when the end is before the start every trial counts 0
\* items and the forecast returns without raising.
AllAtLeastOne == HasSample(call.df) /\ \A v \in Range(Sample) : v >= 1

InPeriodTrials == call.fn = "period" /\ pc \in {"period_for", "while"}

MostItems == IF call.max_days > 0 THEN call.max_days ELSE 0

C27_PeriodTrialBounds ==
    /\ []((InPeriodTrials /\ AllAtLeastOne) =>
              /\ spin = 0
              /\ pc = "while" => Len(simulated_cycle_times) - 1 <= MostItems
              /\ \A k \in DOMAIN totals : totals[k] \in 0..MostItems)
    /\ []((PeriodReturned /\ AllAtLeastOne) =>
              \A k \in DOMAIN result.outcomes : result.outcomes[k] \in 0..MostItems)
    /\ []((pc = "idle" /\ call.fn = "period" /\ AllAtLeastOne /\ call.max_days < 0) =>
              /\ result.status = "returned"
              /\ Len(result.outcomes) = call.num_iterations
              /\ \A k \in DOMAIN result.outcomes : result.outcomes[k] = 0)
    /\ [][(pc = "while" /\ call.fn = "period" /\ AllAtLeastOne) =>
              \/ /\ pc' = "while"
                 /\ Len(simulated_cycle_times') = Len(simulated_cycle_times) + 1
                 /\ totals' = totals
              \/ /\ pc' = "period_for"
                 /\ totals' = Append(totals, Len(simulated_cycle_times) - 1)]_vars

\* A window of two days on the sample 1, 2: a trial drew 1, 1 and a third
\* value that crossed, and counts two items.
C27_Witness ==
    /\ InPeriodTrials
    /\ pc = "period_for"
    /\ Sample = <<1, 2>>
    /\ call.max_days = 2
    /\ simulated_cycle_times = <<0, 1, 2>>
    /\ totals = <<2>>

\* C28: on one and the same draw sequence of values >= 1, the period's trial
\* for D days counts at least N items exactly when the total of N items is
\* at most D days, for N >= 1; the item count does not decrease when D
\* grows by one, and the total grows when N grows by one.
TrialsMade == call.fn = "trials"

C28_Duality ==
    TrialsMade =>
        LET N == call.num_work_items
            D == call.max_days
        IN  /\ N >= 1 => (totals[1] >= N <=> simulated_totals[1] <= D)
            /\ D > -1 =>
                   ItemCount(SimulateTrial(<<0>>, D - 1, call.draws)) <= totals[1]
            /\ N >= 1 =>
                   Last(CumulativeSum(FreshTotal, N - 1, call.draws))
                       < simulated_totals[1]

\* The draws 1, 2, 1, 1: three days hold two items, and two items take
\* three days.
C28_Witness ==
    /\ TrialsMade
    /\ call.draws = <<1, 2, 1, 1>>
    /\ call.num_work_items = 2
    /\ call.max_days = 3
    /\ simulated_totals = <<3>>
    /\ totals = <<2>>

\* C28 as stated, for every number of items: the item count for D days is at
\* least N exactly when the total of N items is at most D.
C28_DualityAnyCount ==
    TrialsMade =>
        (totals[1] >= call.num_work_items <=> simulated_totals[1] <= call.max_days)

\* C29: a forecast of days for N > 0 items on a non-empty sample: every
\* trial's outcome lies between N times the smallest and N times the largest
\* value of the sample, and every returned percentile value lies between the
\* smallest and the largest outcome.
Least(S) == CHOOSE v \in S : \A w \in S : v <= w

Greatest(S) == CHOOSE v \in S : \A w \in S : v >= w

C29_OutcomeBounds ==
    /\ (call.fn = "days" /\ HasSample(call.df) /\ call.num_work_items > 0) =>
           \A k \in DOMAIN simulated_totals :
               /\ simulated_totals[k] >= call.num_work_items * Least(Range(Sample))
               /\ simulated_totals[k] <= call.num_work_items * Greatest(Range(Sample))
    /\ (DaysReturned /\ HasSample(call.df) /\ call.num_work_items > 0) =>
           /\ result.outcomes # <<>>
           /\ \A k \in DOMAIN result.outcomes :
                  /\ result.outcomes[k] >= call.num_work_items * Least(Range(Sample))
                  /\ result.outcomes[k] <= call.num_work_items * Greatest(Range(Sample))
           /\ \A i \in DOMAIN result.percentiles :
                  /\ result.percentiles[i].value >= 100 * Least(Range(result.outcomes))
                  /\ result.percentiles[i].value <= 100 * Greatest(Range(result.outcomes))

\* Two items on the sample 1, 2: one trial drew 1, 1 and the other 2, 2, the
\* two bounds; the 70th percentile, 3.4 days, lies strictly between them.
C29_Witness ==
    /\ DaysReturned
    /\ Sample = <<1, 2>>
    /\ call.num_work_items = 2
    /\ result.outcomes = <<2, 4>>
    /\ result.percentiles[1].value = 340

====
